---- MODULE Spec2Model ----
(***************************************************************************)
(* avalanche-ops: the fleet provisioner (execute_apply / execute_delete of *)
(* avalanche-ops-nodes-aws), the cloud resources it drives, and the        *)
(* readiness mailbox written by the node agents (avalanched-aws).          *)
(*                                                                         *)
(* An optional value (Rust Option<T>) is a natural number: 0 is None and a *)
(* positive number is Some(v).  A KMS key's id is the ordinal of the       *)
(* create_key call that made it, so two created keys have different ids;   *)
(* the outputs of the non-beacon stack are the value 2, those of the other *)
(* stacks the value 1.                                                     *)
(***************************************************************************)
EXTENDS Integers, Sequences, FiniteSets, TLC

\* ---------------------------------------------------------------- bounds
MaxBeacon == 2     \* largest valid beacon-node count explored
MaxNonBeacon == 1  \* largest valid non-beacon-node count explored
MaxKeys == 2       \* KMS keys the account may hold
MaxCerts == 2      \* TLS certificates one instance may generate
MaxIdLen == 3      \* tokens of a cluster id
MaxBytes == 2      \* bytes of a sequence that is encoded
MaxCapacity == 50  \* instances of a group whose stack is polled
MaxLoadKinds == 2  \* load kinds a load generator is configured with
MaxFunded == 3     \* funded keys of a load generator's spec

\* ------------------------------------------------------------- constants
MIN_MACHINE_BEACON_NODES == 1
MAX_MACHINE_BEACON_NODES == 10
MIN_MACHINE_NON_BEACON_NODES == 1
MAX_MACHINE_NON_BEACON_NODES == 20
HealthAttempts == 10
DEFAULT_MACHINE_BEACON_NODES == 3
DEFAULT_MACHINE_NON_BEACON_NODES == 2

None == 0

Identities == {1, 2}
Networks == {"mainnet", "custom"}
\* the network names validate refuses as "not supported yet in this tooling"
UnsupportedNetworks ==
  {"cascade", "denali", "everest", "fuji", "testnet", "testing", "local"}
\* the install artifacts a Spec names by path
InstallArtifacts == {"genesis_file", "avalanched_bin", "avalanchego_bin", "plugins_dir"}
BeaconCounts == (0..MaxBeacon) \cup {MAX_MACHINE_BEACON_NODES + 1}
NonBeaconCounts == (0..MaxNonBeacon) \cup {MAX_MACHINE_NON_BEACON_NODES + 1}
\* the instances each auto scaling group launches
BeaconInstances == 1..MaxBeacon
NonBeaconInstances == 1..MaxNonBeacon
Instances == BeaconInstances \cup NonBeaconInstances

StackKinds == {"role", "vpc", "beacon", "nonbeacon"}

\* A file that holds key material is the list of the transformations applied
\* to the private key: << >> is the key in plaintext.
KeyFile == << >>

\* compress::pack_file(.., Encoder::Zstd(3)) of the orchestrator
pack_file(f) == Append(f, "zstd")

\* envelope.seal_aes_256_file of the orchestrator
seal_aes_256_file(f) == Append(f, "encrypted")

\* compress::to_zstd of the agent
to_zstd(f) == Append(f, "zstd")

\* kms_manager.encrypt_file of the agent
encrypt_file(f) == Append(f, "encrypted")
Phases == <<"kms", "ec2key", "role", "vpc", "beacon", "beacon_wait",
            "nonbeacon", "nonbeacon_wait", "health">>

RoleOutputKeys == {"InstanceProfileArn"}
VpcOutputKeys == {"VpcId", "SecurityGroupId", "PublicSubnetIds"}
AsgOutputKeys == {"AsgLogicalId", "NlbArn", "NlbTargetGroupArn", "NlbDnsName"}

\* The provisioning record as default_aws leaves it: every field None.
EmptyResources ==
  [ identity |-> None,
    kms_cmk_id |-> None, kms_cmk_arn |-> None,
    ec2_key_name |-> None, ec2_key_path |-> None,
    cloudformation_ec2_instance_role |-> None,
    cloudformation_ec2_instance_profile_arn |-> None,
    cloudformation_vpc |-> None,
    cloudformation_vpc_id |-> None,
    cloudformation_vpc_security_group_id |-> None,
    cloudformation_vpc_public_subnet_ids |-> None,
    cloudformation_asg_beacon_nodes |-> None,
    cloudformation_asg_beacon_nodes_logical_id |-> None,
    cloudformation_asg_non_beacon_nodes |-> None,
    cloudformation_asg_non_beacon_nodes_logical_id |-> None,
    cloudformation_asg_nlb_arn |-> None,
    cloudformation_asg_nlb_target_group_arn |-> None,
    cloudformation_asg_nlb_dns_name |-> None ]

ResourceFields == DOMAIN EmptyResources

VARIABLES
  spec,      \* the user-provided part of the Spec file (never rewritten)
  file,      \* aws_resources as stored in the Spec file on local disk
  mirror,    \* {id}/config.yaml in the bucket: << >> or <<aws_resources>>
  cmd,       \* the subcommand the process runs: "none", "apply", "delete"
  pc,        \* position of the process inside execute_apply / execute_delete
  result,    \* how the last invocation ended
  caller,    \* identity STS reports for the running process
  mem,       \* the local variable aws_resources
  loc,       \* other locals: objects, all_nodes, the health loop's counters, delete_all
  run,       \* what this invocation did so far (observation only)
  hist,      \* what all invocations did so far (observation only)
  aws,       \* cloud resources: bucket, keys, key pair, stacks
  markers,   \* readiness markers in the bucket, as <<kind, instance>>
  agent,     \* avalanched on each instance: its process, its tags, its local disk
  call       \* the call of a pure function under evaluation: its name, arguments, value

vars ==
  <<spec, file, mirror, cmd, pc, result, caller, mem, loc, run, hist, aws, markers,
    agent, call>>

\* -------------------------------------------------------------- validate
is_mainnet(s) == s.network = "mainnet"

\* validation that accepts everything
validateAnything(s) == TRUE

\* the upper limit of the beacon nodes taken as exclusive
validateBeaconLimitExclusive(s) ==
  /\ s.id # "" /\ s.missing = {} /\ s.network # "" /\ s.region # ""
  /\ s.network \notin UnsupportedNetworks
  /\ IF is_mainnet(s)
       THEN ~(s.beacon_nodes > 0)
       ELSE /\ ~(s.beacon_nodes = 0)
            /\ ~(s.beacon_nodes >= MAX_MACHINE_BEACON_NODES)
  /\ ~(s.non_beacon_nodes < MIN_MACHINE_NON_BEACON_NODES)
  /\ ~(s.non_beacon_nodes > MAX_MACHINE_NON_BEACON_NODES)

\* each conjunct is one "return Err(..)" of validate, negated; s.missing is
\* the set of install artifacts whose path does not exist
validate(s) ==
  /\ ~(s.id = "")
  /\ ~("genesis_file" \in s.missing)
  /\ ~("avalanched_bin" \in s.missing)
  /\ ~("avalanchego_bin" \in s.missing)
  /\ ~("plugins_dir" \in s.missing)
  /\ ~(s.network = "")
  /\ ~(s.region = "")
  /\ CASE s.network = "mainnet" -> ~(s.beacon_nodes > 0)
       [] s.network \in UnsupportedNetworks -> FALSE
       [] OTHER -> /\ ~(s.beacon_nodes = 0)
                   /\ ~(s.beacon_nodes < MIN_MACHINE_BEACON_NODES)
                   /\ ~(s.beacon_nodes > MAX_MACHINE_BEACON_NODES)
  /\ ~(s.non_beacon_nodes < MIN_MACHINE_NON_BEACON_NODES)
  /\ ~(s.non_beacon_nodes > MAX_MACHINE_NON_BEACON_NODES)

\* a default-spec that gives every network the beacon nodes of a custom one
default_awsBeaconsEverywhere(missing, network_id) ==
  [ id |-> "avalanche-ops", network |-> network_id, region |-> "us-west-2",
    missing |-> missing, s3_bucket_db_backup |-> None,
    beacon_nodes |-> DEFAULT_MACHINE_BEACON_NODES,
    non_beacon_nodes |-> DEFAULT_MACHINE_NON_BEACON_NODES ]

\* Config::default_aws: the Spec for a network; its aws_resources are EmptyResources
default_aws(missing, network_id) ==
  [ id |-> "avalanche-ops", network |-> network_id, region |-> "us-west-2",
    missing |-> missing, s3_bucket_db_backup |-> None,
    beacon_nodes |-> IF network_id = "mainnet" THEN 0 ELSE DEFAULT_MACHINE_BEACON_NODES,
    non_beacon_nodes |-> DEFAULT_MACHINE_NON_BEACON_NODES ]

\* ------------------------------------------------------------ the gates
\* the key phase run whatever the record says
KmsGateUngated(r) == TRUE

KmsGate(r) == r.kms_cmk_id = None /\ r.kms_cmk_arn = None

Ec2KeyGate(r) == r.ec2_key_path = None

\* the role phase run whatever the record says
RoleGateUngated(r) == TRUE

RoleGate(r) == r.cloudformation_ec2_instance_profile_arn = None

VpcGate(r) ==
  /\ r.cloudformation_vpc_id = None
  /\ r.cloudformation_vpc_security_group_id = None
  /\ r.cloudformation_vpc_public_subnet_ids = None

\* the beacon phase gated on the wrong test of the logical id
BeaconGateInverted(s, r) ==
  s.beacon_nodes > 0 /\ r.cloudformation_asg_beacon_nodes_logical_id # None

BeaconGate(s, r) ==
  s.beacon_nodes > 0 /\ r.cloudformation_asg_beacon_nodes_logical_id = None

NonBeaconGate(r) == r.cloudformation_asg_non_beacon_nodes_logical_id = None

\* the identity comparison dropped
IdentityNeverDiffers(identity, current_identity) == FALSE

\* identity != current_identity
IdentityDiffers(identity, current_identity) == identity # current_identity

\* "set defaults based on ID": names derived from spec.id, only when None
SetDefaults(s, r) ==
  [ r EXCEPT
      !.ec2_key_name = IF @ = None THEN 1 ELSE @,
      !.cloudformation_ec2_instance_role = IF @ = None THEN 1 ELSE @,
      !.cloudformation_vpc = IF @ = None THEN 1 ELSE @,
      !.cloudformation_asg_beacon_nodes =
          IF ~is_mainnet(s) /\ @ = None THEN 1 ELSE @,
      !.cloudformation_asg_non_beacon_nodes = IF @ = None THEN 1 ELSE @ ]

\* ------------------------------------------------------------ the agent
\* the instances that run avalanched
\* no pure function is under evaluation
NoCall == [ fn |-> "none", arg |-> << >>, ret |-> << >> ]

AgentIds == {1, 2}

\* the tags an instance of an auto scaling group may carry
Tags == {"ID", "NODE_TYPE", "ARCH_TYPE", "OS_TYPE", "KMS_CMK_ARN", "S3_BUCKET_NAME"}

NodeTypes == {"beacon", "non-beacon"}

\* an instance whose agent has not started: nothing on its disk
\* a launch command without --bootstrap-ips and --bootstrap-ids
NoPeers == [ flags |-> FALSE, ips |-> << >>, ids |-> << >> ]

Stopped(tags, node_type) ==
  [ pc |-> "off", end |-> "", tags |-> tags, node_type |-> node_type,
    fs |-> {}, cert |-> 0, node_id |-> 0, peers |-> NoPeers ]

\* --------------------------------------------------------- initial state
InitLoc ==
  [ objects |-> << >>, all_nodes |-> << >>, node |-> 0, attempt |-> 0,
    delete_all |-> FALSE ]

InitRun ==
  [ created |-> {}, trace |-> << >>, mutated |-> FALSE, called |-> FALSE,
    wrote |-> FALSE, loaded |-> EmptyResources, ret |-> "",
    parameters |-> {} ]

Init ==
  /\ spec \in [ id : {"avalanche-ops"}, network : Networks, region : {"us-west-2"},
                missing : {{}}, s3_bucket_db_backup : {None, 1},
                beacon_nodes : BeaconCounts,
                non_beacon_nodes : NonBeaconCounts ]
  /\ file = EmptyResources
  /\ mirror = << >>
  /\ cmd = "none"
  /\ pc = "idle"
  /\ result = "none"
  /\ caller = 1
  /\ mem = EmptyResources
  /\ loc = InitLoc
  /\ run = InitRun
  /\ hist = [ anchorsObserved |-> 0 ]
  /\ aws = [ bucket |-> FALSE, keys |-> 0,
             backup |-> FALSE,    \* the bucket s3_bucket_db_backup, with its objects
             logGroup |-> FALSE,  \* the log group the nodes create
             keyPair |-> FALSE,   \* the EC2 key pair, and its local key file
             sealedKey |-> {},    \* the object at Ec2AccessKeyCompressedEncrypted
             pki |-> {},          \* the objects under PkiKeyDir: <<role, instance, file>>
             stacks |-> [k \in StackKinds |-> "none"] ]
  /\ markers = {}
  /\ call = NoCall
  /\ agent = [ i \in AgentIds |-> Stopped(Tags, "beacon") ]

\* ------------------------------------------------- how an invocation ends
\* return Ok(()) / return Err(..): the process exits, its locals are gone
Return(res) ==
  /\ pc' = "idle"
  /\ cmd' = "none"
  /\ result' = res
  /\ mem' = EmptyResources
  /\ loc' = InitLoc

\* an unwrap() on an Err/None panics the process
Panic == Return("panic")

Goto(p) == pc' = p /\ UNCHANGED <<cmd, result>>

Did(phase) == [ run EXCEPT !.trace = Append(@, phase) ]

\* ------------------------------------------------------- cloud primitives
\* create_stack succeeds only for a name that is not in use
CanCreateStack(k) == aws.stacks[k] = "none"

StackCreated(k) == [ aws EXCEPT !.stacks[k] = "exists" ]

\* the load balancer made anew by every stack
need_to_create_nlb_always(r) == TRUE

\* let need_to_create_nlb = ..cloudformation_asg_nlb_target_group_arn.is_none()
need_to_create_nlb(r) == r.cloudformation_asg_nlb_target_group_arn = None

\* of the parameters pushed for a stack, the one that hands over a load
\* balancer: if !need_to_create_nlb { .. build_param("NlbTargetGroupArn", ..) }
NlbParameters(k, r) ==
  IF k = "nonbeacon" /\ ~need_to_create_nlb(r)
    THEN { <<"NlbTargetGroupArn", r.cloudformation_asg_nlb_target_group_arn>> }
    ELSE {}

\* what this invocation is seen to have issued
IssueCreate(phase) ==
  [ run EXCEPT !.created = @ \cup {phase}, !.trace = Append(@, phase),
               !.mutated = TRUE, !.called = TRUE ]

\* list_objects under a mailbox prefix: the keys of that kind, in key order
RECURSIVE SortedSeq(_)
SortedSeq(S) ==
  IF S = {} THEN << >>
  ELSE LET m == CHOOSE x \in S : \A y \in S : x <= y
       IN <<m>> \o SortedSeq(S \ {m})

list_objects(kind) ==
  LET ids == { i \in Instances : <<kind, i>> \in markers }
      keys == SortedSeq(ids)
  IN [ j \in 1..Len(keys) |-> <<kind, keys[j]>> ]

\* KeyPath::parse_node_from_s3_path
parse_node_from_s3_path(s3_key) ==
  [ kind |-> s3_key[1], machine_id |-> s3_key[2] ]

ParseAll(objs) == [ j \in 1..Len(objs) |-> parse_node_from_s3_path(objs[j]) ]

\* ---------------------------------------------------------- execute_apply
\* load, validate
ExecuteApply(current_identity) ==
  /\ pc = "idle"
  /\ caller' = current_identity
  /\ run' = [ InitRun EXCEPT !.loaded = file ]
  /\ IF ~validate(spec)
       THEN Return("err_validate")
       ELSE /\ cmd' = "apply"
            /\ pc' = "get_identity"
            /\ result' = "running"
            /\ mem' = file
            /\ loc' = InitLoc
  /\ UNCHANGED <<call, agent, spec, file, mirror, hist, aws, markers>>

\* get_identity, "validate identity", "set defaults based on ID", sync
ApplyIdentity ==
  /\ cmd = "apply" /\ pc = "get_identity"
  /\ IF mem.identity # None /\ IdentityDiffers(mem.identity, caller)
       THEN /\ Return("err_identity")
            /\ run' = [ run EXCEPT !.called = TRUE ]
            /\ UNCHANGED file
       ELSE /\ mem' = SetDefaults(spec,
                        [ mem EXCEPT !.identity = IF @ = None THEN caller ELSE @ ])
            /\ file' = mem'
            /\ run' = [ run EXCEPT !.called = TRUE, !.wrote = TRUE ]
            /\ Goto("prompt")
            /\ UNCHANGED loc
  /\ UNCHANGED <<call, agent, spec, mirror, caller, hist, aws, markers>>

\* the confirmation prompt (skipped with --skip-prompt)
ApplyPrompt(proceed) ==
  /\ cmd = "apply" /\ pc = "prompt"
  /\ IF proceed
       THEN Goto("s3") /\ UNCHANGED <<mem, loc>>
       ELSE Return("ok_declined")
  /\ UNCHANGED <<call, agent, spec, file, mirror, caller, run, hist, aws, markers>>

\* "create S3 buckets", "upload artifacts to S3 bucket", the Spec file included
ApplyS3 ==
  /\ cmd = "apply" /\ pc = "s3"
  /\ aws' = [ aws EXCEPT !.bucket = TRUE,
                          !.backup = @ \/ spec.s3_bucket_db_backup # None ]
  /\ mirror' = <<file>>
  /\ run' = [ run EXCEPT !.mutated = TRUE, !.called = TRUE ]
  /\ Goto("kms")
  /\ UNCHANGED <<call, agent, spec, file, caller, mem, loc, hist, markers>>

\* "create KMS key"
ApplyKms ==
  /\ cmd = "apply" /\ pc = "kms"
  /\ IF KmsGate(mem)
       THEN IF aws.keys < MaxKeys
              THEN /\ aws' = [ aws EXCEPT !.keys = @ + 1 ]
                   /\ mem' = [ mem EXCEPT !.kms_cmk_id = aws.keys + 1,
                                          !.kms_cmk_arn = aws.keys + 1 ]
                   /\ run' = IssueCreate("kms")
                   /\ Goto("kms_sync")
                   /\ UNCHANGED loc
              ELSE /\ Panic
                   /\ run' = IssueCreate("kms")
                   /\ UNCHANGED aws
       ELSE /\ Goto("ec2key")
            /\ UNCHANGED <<mem, loc, run, aws>>
  /\ UNCHANGED <<call, agent, spec, file, mirror, caller, hist, markers>>

\* "create EC2 key pair"
ApplyEc2Key ==
  /\ cmd = "apply" /\ pc = "ec2key"
  /\ IF Ec2KeyGate(mem)
       THEN IF mem.ec2_key_name # None /\ ~aws.keyPair
              THEN /\ aws' = [ aws EXCEPT !.keyPair = TRUE ]
                   /\ run' = IssueCreate("ec2key")
                   /\ Goto("ec2key_seal")
                   /\ UNCHANGED <<mem, loc>>
              ELSE /\ Panic
                   /\ run' = IssueCreate("ec2key")
                   /\ UNCHANGED aws
       ELSE /\ Goto("role")
            /\ UNCHANGED <<mem, loc, run, aws>>
  /\ UNCHANGED <<call, agent, spec, file, mirror, caller, hist, markers>>

\* put_object of tmp_compressed_path
ApplyEc2KeySealPutsCompressed ==
  /\ cmd = "apply" /\ pc = "ec2key_seal"
  /\ aws' = [ aws EXCEPT !.sealedKey = {pack_file(KeyFile)} ]
  /\ mem' = [ mem EXCEPT !.ec2_key_path = 1 ]
  /\ Goto("ec2key_sync")
  /\ UNCHANGED <<call, agent, spec, file, mirror, caller, loc, run, hist, markers>>

\* pack_file, seal_aes_256_file, put_object of the sealed key
ApplyEc2KeySeal ==
  /\ cmd = "apply" /\ pc = "ec2key_seal"
  /\ aws' = [ aws EXCEPT !.sealedKey = {seal_aes_256_file(pack_file(KeyFile))} ]
  /\ mem' = [ mem EXCEPT !.ec2_key_path = 1 ]
  /\ Goto("ec2key_sync")
  /\ UNCHANGED <<call, agent, spec, file, mirror, caller, loc, run, hist, markers>>

\* spec.aws_resources = Some(aws_resources.clone()); spec.sync(spec_file_path)
SyncNext ==
  [ kms_sync |-> "kms_put", ec2key_sync |-> "ec2key_put", role_sync |-> "role_put",
    vpc_sync |-> "vpc_put", beacon_sync |-> "beacon_put",
    nonbeacon_sync |-> "nonbeacon_put" ]

ApplySync ==
  /\ cmd = "apply" /\ pc \in DOMAIN SyncNext
  /\ file' = mem
  /\ run' = [ run EXCEPT !.wrote = TRUE ]
  /\ Goto(SyncNext[pc])
  /\ UNCHANGED <<call, agent, spec, mirror, caller, mem, loc, hist, aws, markers>>

\* put_object(spec_file_path, s3_bucket, KeyPath::ConfigFile)
PutNext ==
  [ kms_put |-> "ec2key", ec2key_put |-> "role", role_put |-> "vpc",
    vpc_put |-> "asg_params", beacon_put |-> "nonbeacon",
    nonbeacon_put |-> "health_start" ]

ApplyPut ==
  /\ cmd = "apply" /\ pc \in DOMAIN PutNext
  /\ mirror' = <<file>>
  /\ Goto(PutNext[pc])
  /\ UNCHANGED <<call, agent, spec, file, caller, mem, loc, run, hist, aws, markers>>

\* create_stack(..).unwrap() of one phase
CreateStackStep(k, next) ==
  /\ run' = [ IssueCreate(k) EXCEPT !.parameters = NlbParameters(k, mem) ]
  /\ IF CanCreateStack(k)
       THEN /\ aws' = StackCreated(k)
            /\ Goto(next)
            /\ UNCHANGED <<mem, loc>>
       ELSE /\ Panic
            /\ UNCHANGED aws

\* poll_stack(.., CreateComplete, ..).unwrap() not reaching CreateComplete:
\* the stack failed and OnFailure::Delete removed it, or the timeout elapsed
PollOutcomes == {"complete", "failed", "timeout"}

PollCreateFails(k, outcome) ==
  /\ outcome # "complete"
  /\ aws' = IF outcome = "failed" THEN [ aws EXCEPT !.stacks[k] = "none" ] ELSE aws
  /\ Panic

Out(K, key, old, v) == IF key \in K THEN v ELSE old

\* "create EC2 instance role"
ApplyRoleCreate ==
  /\ cmd = "apply" /\ pc = "role"
  /\ IF RoleGate(mem)
       THEN IF mem.kms_cmk_arn = None
              THEN Panic /\ UNCHANGED <<run, aws>>
              ELSE CreateStackStep("role", "role_poll")
       ELSE /\ Goto("vpc")
            /\ UNCHANGED <<mem, loc, run, aws>>
  /\ UNCHANGED <<call, agent, spec, file, mirror, caller, hist, markers>>

ApplyRolePoll(outcome, K) ==
  /\ cmd = "apply" /\ pc = "role_poll"
  /\ IF outcome = "complete"
       THEN /\ mem' = [ mem EXCEPT !.cloudformation_ec2_instance_profile_arn =
                          Out(K, "InstanceProfileArn", @, 1) ]
            /\ Goto("role_sync")
            /\ UNCHANGED <<loc, aws>>
       ELSE PollCreateFails("role", outcome)
  /\ UNCHANGED <<call, agent, spec, file, mirror, caller, run, hist, markers>>

\* "create VPC"
ApplyVpcCreate ==
  /\ cmd = "apply" /\ pc = "vpc"
  /\ IF VpcGate(mem)
       THEN CreateStackStep("vpc", "vpc_poll")
       ELSE /\ Goto("asg_params")
            /\ UNCHANGED <<mem, loc, run, aws>>
  /\ UNCHANGED <<call, agent, spec, file, mirror, caller, hist, markers>>

ApplyVpcPoll(outcome, K) ==
  /\ cmd = "apply" /\ pc = "vpc_poll"
  /\ IF outcome = "complete"
       THEN /\ mem' = [ mem EXCEPT
                 !.cloudformation_vpc_id = Out(K, "VpcId", @, 1),
                 !.cloudformation_vpc_security_group_id =
                     Out(K, "SecurityGroupId", @, 1),
                 !.cloudformation_vpc_public_subnet_ids =
                     Out(K, "PublicSubnetIds", @, 1) ]
            /\ Goto("vpc_sync")
            /\ UNCHANGED <<loc, aws>>
       ELSE PollCreateFails("vpc", outcome)
  /\ UNCHANGED <<call, agent, spec, file, mirror, caller, run, hist, markers>>

\* let mut asg_parameters = ..: every value is unwrap()ped
AsgParametersBuild(r) ==
  /\ r.kms_cmk_arn # None
  /\ r.ec2_key_name # None
  /\ r.cloudformation_ec2_instance_profile_arn # None
  /\ r.cloudformation_vpc_public_subnet_ids # None
  /\ r.cloudformation_vpc_security_group_id # None
  /\ r.cloudformation_vpc_id # None

ApplyAsgParameters ==
  /\ cmd = "apply" /\ pc = "asg_params"
  /\ IF AsgParametersBuild(mem)
       THEN Goto("beacon") /\ UNCHANGED <<mem, loc>>
       ELSE Panic
  /\ UNCHANGED <<call, agent, spec, file, mirror, caller, run, hist, aws, markers>>

\* the listings of all iterations kept
ListedAccumulated(previous, listing) == previous \o listing

\* objects = list_objects(..): each listing replaces the previous one
Listed(previous, listing) == listing

\* objects.len() as u32 >= target_nodes
Ready(objects, target_nodes) == Len(objects) >= target_nodes

\* the four outputs of the ASG template
AsgNlbOutputs(r, K, v) ==
  [ r EXCEPT
      !.cloudformation_asg_nlb_arn = Out(K, "NlbArn", @, v),
      !.cloudformation_asg_nlb_target_group_arn = Out(K, "NlbTargetGroupArn", @, v),
      !.cloudformation_asg_nlb_dns_name = Out(K, "NlbDnsName", @, v) ]

NlbFound(r) ==
  /\ r.cloudformation_asg_nlb_arn # None
  /\ r.cloudformation_asg_nlb_target_group_arn # None
  /\ r.cloudformation_asg_nlb_dns_name # None

\* "create ASG for beacon nodes"
ApplyBeaconCreate ==
  /\ cmd = "apply" /\ pc = "beacon"
  /\ IF BeaconGate(spec, mem)
       THEN IF mem.cloudformation_asg_beacon_nodes = None
              THEN Panic /\ UNCHANGED <<run, aws>>
              ELSE CreateStackStep("beacon", "beacon_poll")
       ELSE /\ Goto("nonbeacon")
            /\ UNCHANGED <<mem, loc, run, aws>>
  /\ UNCHANGED <<call, agent, spec, file, mirror, caller, hist, markers>>

ApplyBeaconPoll(outcome, K) ==
  /\ cmd = "apply" /\ pc = "beacon_poll"
  /\ IF outcome = "complete"
       THEN LET v == 1
                new == AsgNlbOutputs(
                         [ mem EXCEPT !.cloudformation_asg_beacon_nodes_logical_id =
                                        Out(K, "AsgLogicalId", @, v) ], K, v)
            IN IF new.cloudformation_asg_beacon_nodes_logical_id # None /\ NlbFound(new)
                 THEN /\ mem' = new
                      /\ Goto("beacon_list_asg")
                      /\ UNCHANGED <<loc, aws>>
                 ELSE /\ Return("err_output")
                      /\ UNCHANGED aws
       ELSE PollCreateFails("beacon", outcome)
  /\ UNCHANGED <<call, agent, spec, file, mirror, caller, run, hist, markers>>

\* list_asg, File::open(ec2_key_path), the ssh hints
ApplyListAsg ==
  /\ cmd = "apply" /\ pc \in {"beacon_list_asg", "nonbeacon_list_asg"}
  /\ IF mem.ec2_key_path # None /\ aws.keyPair
       THEN /\ Goto(IF pc = "beacon_list_asg" THEN "beacon_wait" ELSE "nonbeacon_wait")
            /\ run' = Did(IF pc = "beacon_list_asg" THEN "beacon_wait" ELSE "nonbeacon_wait")
            /\ UNCHANGED <<mem, loc>>
       ELSE Panic /\ UNCHANGED run
  /\ UNCHANGED <<call, agent, spec, file, mirror, caller, hist, aws, markers>>

\* "wait for beacon nodes to generate certs and node ID and post to remote storage"
ApplyBeaconWait ==
  /\ cmd = "apply" /\ pc = "beacon_wait"
  /\ LET objects == Listed(loc.objects, list_objects("beacon"))
     IN IF Ready(objects, spec.beacon_nodes)
          THEN /\ loc' = [ loc EXCEPT !.objects = objects,
                             !.all_nodes = @ \o ParseAll(objects) ]
               /\ hist' = [ hist EXCEPT !.anchorsObserved = Len(objects) ]
               /\ Goto("beacon_sync")
          ELSE /\ loc' = [ loc EXCEPT !.objects = objects ]
               /\ Goto("beacon_wait")
               /\ UNCHANGED hist
  /\ UNCHANGED mem
  /\ UNCHANGED <<call, agent, spec, file, mirror, caller, run, aws, markers>>

\* "create ASG for non-beacon nodes"
ApplyNonBeaconCreate ==
  /\ cmd = "apply" /\ pc = "nonbeacon"
  /\ IF NonBeaconGate(mem)
       THEN IF mem.cloudformation_asg_non_beacon_nodes = None
              THEN Panic /\ UNCHANGED <<run, aws>>
              ELSE CreateStackStep("nonbeacon", "nonbeacon_poll")
       ELSE /\ Goto("health_start")
            /\ UNCHANGED <<mem, loc, run, aws>>
  /\ UNCHANGED <<call, agent, spec, file, mirror, caller, hist, markers>>

\* the outputs, the "not found" checks, and the sync that follows them
ApplyNonBeaconPoll(outcome, K) ==
  /\ cmd = "apply" /\ pc = "nonbeacon_poll"
  /\ IF outcome = "complete"
       THEN LET v == 2
                lid == [ mem EXCEPT !.cloudformation_asg_non_beacon_nodes_logical_id =
                                      Out(K, "AsgLogicalId", @, v) ]
                new == IF need_to_create_nlb(mem) THEN AsgNlbOutputs(lid, K, v) ELSE lid
            IN IF /\ new.cloudformation_asg_non_beacon_nodes_logical_id # None
                  /\ (need_to_create_nlb(mem) => NlbFound(new))
                 THEN /\ mem' = new
                      /\ file' = new
                      /\ run' = [ run EXCEPT !.wrote = TRUE ]
                      /\ Goto("nonbeacon_list_asg")
                      /\ UNCHANGED <<loc, aws>>
                 ELSE /\ Return("err_output")
                      /\ UNCHANGED <<file, run, aws>>
       ELSE PollCreateFails("nonbeacon", outcome) /\ UNCHANGED <<file, run>>
  /\ UNCHANGED <<call, agent, spec, mirror, caller, hist, markers>>

\* "wait for non-beacon nodes to generate certs and node ID and post to remote storage"
ApplyNonBeaconWait ==
  /\ cmd = "apply" /\ pc = "nonbeacon_wait"
  /\ LET objects == Listed(loc.objects, list_objects("non-beacon"))
     IN IF Ready(objects, spec.non_beacon_nodes)
          THEN /\ loc' = [ loc EXCEPT !.objects = objects,
                             !.all_nodes = @ \o ParseAll(objects) ]
               /\ Goto("nonbeacon_sync")
          ELSE /\ loc' = [ loc EXCEPT !.objects = objects ]
               /\ Goto("nonbeacon_wait")
  /\ UNCHANGED mem
  /\ UNCHANGED <<call, agent, spec, file, mirror, caller, run, hist, aws, markers>>

\* -------------------------------------------------- health verification
\* check_health_liveness returns Ok(reply) or Err; healthy is Option<bool>
HealthReturns == {"some_true", "some_false", "none", "err"}

\* a probe error taken for a healthy reply
ResOfErrorHealthy(ret) == IF ret = "err" THEN "some_true" ELSE ret

\* Err(e) => APIHealthReply { checks: None, healthy: Some(false) }
ResOf(ret) == IF ret = "err" THEN "some_false" ELSE ret

\* success = res.healthy.is_some() && res.healthy.unwrap()
Success(res) == res = "some_true"

\* let dns_name = aws_resources.cloudformation_asg_nlb_dns_name.unwrap()
ApplyHealthStart ==
  /\ cmd = "apply" /\ pc = "health_start"
  /\ IF mem.cloudformation_asg_nlb_dns_name = None
       THEN Panic /\ UNCHANGED run
       ELSE /\ loc' = [ loc EXCEPT !.node = 1, !.attempt = 0 ]
            /\ run' = Did("health")
            /\ Goto("health")
            /\ UNCHANGED mem
  /\ UNCHANGED <<call, agent, spec, file, mirror, caller, hist, aws, markers>>

\* one iteration of "for _ in 0..10_u8" for the node all_nodes[loc.node]
ApplyHealthProbe(ret) ==
  /\ cmd = "apply" /\ pc = "health"
  /\ loc.node <= Len(loc.all_nodes)
  /\ loc.attempt < HealthAttempts
  /\ run' = [ run EXCEPT !.ret = ret, !.called = TRUE ]
  /\ IF Success(ResOf(ret))
       THEN /\ loc' = [ loc EXCEPT !.node = @ + 1, !.attempt = 0 ]
            /\ Goto("health")
            /\ UNCHANGED mem
       ELSE IF loc.attempt + 1 < HealthAttempts
              THEN /\ loc' = [ loc EXCEPT !.attempt = @ + 1 ]
                   /\ Goto("health")
                   /\ UNCHANGED mem
              ELSE Return("err_health")
  /\ UNCHANGED <<call, agent, spec, file, mirror, caller, hist, aws, markers>>

\* "apply all success!"
ApplyDone ==
  /\ cmd = "apply" /\ pc = "health"
  /\ loc.node > Len(loc.all_nodes)
  /\ Return("applied")
  /\ UNCHANGED <<call, agent, spec, file, mirror, caller, run, hist, aws, markers>>

\* --------------------------------------------------------- execute_delete
ExecuteDelete(current_identity, delete_all) ==
  /\ pc = "idle"
  /\ caller' = current_identity
  /\ run' = [ InitRun EXCEPT !.loaded = file ]
  /\ cmd' = "delete"
  /\ pc' = "get_identity"
  /\ result' = "running"
  /\ mem' = file
  /\ loc' = [ InitLoc EXCEPT !.delete_all = delete_all ]
  /\ UNCHANGED <<call, agent, spec, file, mirror, hist, aws, markers>>

\* get_identity, "validate identity"
DeleteIdentity ==
  /\ cmd = "delete" /\ pc = "get_identity"
  /\ run' = [ run EXCEPT !.called = TRUE ]
  /\ IF mem.identity = None \/ IdentityDiffers(mem.identity, caller)
       THEN Return("err_identity")
       ELSE Goto("prompt") /\ UNCHANGED <<mem, loc>>
  /\ UNCHANGED <<call, agent, spec, file, mirror, caller, hist, aws, markers>>

DeletePrompt(proceed) ==
  /\ cmd = "delete" /\ pc = "prompt"
  /\ IF proceed
       THEN Goto("d_ec2key") /\ UNCHANGED <<mem, loc>>
       ELSE Return("ok_declined")
  /\ UNCHANGED <<call, agent, spec, file, mirror, caller, run, hist, aws, markers>>

IssueDelete(what) ==
  [ run EXCEPT !.trace = Append(@, what), !.mutated = TRUE, !.called = TRUE ]

\* "delete EC2 key pair": the local key files and the key pair
DeleteEc2Key ==
  /\ cmd = "delete" /\ pc = "d_ec2key"
  /\ IF mem.ec2_key_name # None /\ mem.ec2_key_path # None
       THEN /\ aws' = [ aws EXCEPT !.keyPair = FALSE ]
            /\ run' = IssueDelete("delete:ec2key")
       ELSE UNCHANGED <<aws, run>>
  /\ Goto("d_kms")
  /\ UNCHANGED <<call, agent, spec, file, mirror, caller, mem, loc, hist, markers>>

\* "delete KMS key": schedule_to_delete
DeleteKms ==
  /\ cmd = "delete" /\ pc = "d_kms"
  /\ IF mem.kms_cmk_id # None /\ mem.kms_cmk_arn # None
       THEN run' = IssueDelete("delete:kms")
       ELSE UNCHANGED run
  /\ Goto("d_role")
  /\ UNCHANGED <<call, agent, spec, file, mirror, caller, mem, loc, hist, aws, markers>>

\* the condition under which delete acts on each stack
DeleteGate(k, s, r) ==
  CASE k = "role" -> r.cloudformation_ec2_instance_profile_arn # None
    [] k = "nonbeacon" -> r.cloudformation_asg_non_beacon_nodes_logical_id # None
    [] k = "beacon" -> s.beacon_nodes > 0
                         /\ r.cloudformation_asg_beacon_nodes_logical_id # None
    [] k = "vpc" -> /\ r.cloudformation_vpc_id # None
                    /\ r.cloudformation_vpc_security_group_id # None
                    /\ r.cloudformation_vpc_public_subnet_ids # None

\* delete_stack(name).unwrap()
TriggerNext ==
  [ d_role |-> "d_nonbeacon", d_nonbeacon |-> "d_beacon",
    d_beacon |-> "d_nonbeacon_poll", d_vpc |-> "d_vpc_poll" ]

\* the poll of the beacon stack left out
ConfirmNextSkipsBeacon ==
  [ d_nonbeacon_poll |-> "d_vpc", d_beacon_poll |-> "d_vpc",
    d_vpc_poll |-> "d_role_poll", d_role_poll |-> "d_all" ]

ConfirmNext ==
  [ d_nonbeacon_poll |-> "d_beacon_poll", d_beacon_poll |-> "d_vpc",
    d_vpc_poll |-> "d_role_poll", d_role_poll |-> "d_all" ]

StackOf ==
  [ d_role |-> "role", d_nonbeacon |-> "nonbeacon", d_beacon |-> "beacon",
    d_vpc |-> "vpc", d_nonbeacon_poll |-> "nonbeacon", d_beacon_poll |-> "beacon",
    d_vpc_poll |-> "vpc", d_role_poll |-> "role" ]

DeleteTrigger ==
  /\ cmd = "delete" /\ pc \in DOMAIN TriggerNext
  /\ LET k == StackOf[pc]
     IN IF DeleteGate(k, spec, mem)
          THEN /\ aws' = [ aws EXCEPT !.stacks[k] =
                             IF @ = "none" THEN "none" ELSE "deleting" ]
               /\ run' = IssueDelete("delete:" \o k)
               /\ Goto(TriggerNext[pc])
          ELSE /\ Goto(IF pc = "d_vpc" THEN ConfirmNext["d_vpc_poll"] ELSE TriggerNext[pc])
               /\ UNCHANGED <<aws, run>>
  /\ UNCHANGED <<call, agent, spec, file, mirror, caller, mem, loc, hist, markers>>

\* poll_stack(name, DeleteComplete, ..).unwrap()
DeleteConfirm(outcome) ==
  /\ cmd = "delete" /\ pc \in DOMAIN ConfirmNext
  /\ LET k == StackOf[pc]
     IN IF pc = "d_vpc_poll" \/ DeleteGate(k, spec, mem)
          THEN IF outcome = "complete"
                 THEN /\ aws' = [ aws EXCEPT !.stacks[k] = "none" ]
                      /\ run' = [ run EXCEPT !.trace = Append(@, "confirmed:" \o k),
                                             !.called = TRUE ]
                      /\ Goto(ConfirmNext[pc])
                      /\ UNCHANGED <<mem, loc>>
                 ELSE /\ Panic
                      /\ UNCHANGED <<aws, run>>
          ELSE /\ outcome = "complete"
               /\ Goto(ConfirmNext[pc])
               /\ UNCHANGED <<mem, loc, aws, run>>
  /\ UNCHANGED <<call, agent, spec, file, mirror, caller, hist, markers>>

\* delete_all also passed for the bucket of the database backups
SweepAll(a, delete_all) ==
  IF delete_all
    THEN [ a EXCEPT !.logGroup = FALSE, !.bucket = FALSE, !.sealedKey = {},
                    !.pki = {}, !.backup = FALSE ]
    ELSE a

\* if delete_all { delete_log_group; delete_objects; delete_bucket }, the
\* bucket of the database backups skipped
Sweep(a, delete_all) ==
  IF delete_all
    THEN [ a EXCEPT !.logGroup = FALSE, !.bucket = FALSE, !.sealedKey = {},
                    !.pki = {} ]
    ELSE a

\* the record of the deleted resources cleared in the Spec file
DeleteAllResets ==
  /\ cmd = "delete" /\ pc = "d_all"
  /\ aws' = Sweep(aws, loc.delete_all)
  /\ IF loc.delete_all
       THEN /\ mirror' = << >>
            /\ markers' = {}
            /\ run' = IssueDelete("delete:bucket")
       ELSE UNCHANGED <<mirror, markers, run>>
  /\ Return("deleted")
  /\ file' = EmptyResources
  /\ UNCHANGED <<call, agent, spec, caller, hist>>

DeleteAll ==
  /\ cmd = "delete" /\ pc = "d_all"
  /\ aws' = Sweep(aws, loc.delete_all)
  /\ IF loc.delete_all
       THEN /\ mirror' = << >>
            /\ markers' = {}
            /\ run' = IssueDelete("delete:bucket")
       ELSE UNCHANGED <<mirror, markers, run>>
  /\ Return("deleted")
  /\ UNCHANGED <<call, agent, spec, file, caller, hist>>

\* ------------------------------------------------------------ environment
\* the process is killed (or the machine it runs on stops)
Kill ==
  /\ pc # "idle"
  /\ Return("killed")
  /\ run' = InitRun
  /\ UNCHANGED <<call, agent, spec, file, mirror, caller, hist, aws, markers>>

\* avalanched on an instance of the beacon group publishes its marker
\* the prefix rewritten by each publication
AgentPublishBeaconReplaces(instance_id) ==
  /\ aws.stacks["beacon"] = "exists"
  /\ aws.bucket
  /\ markers' = {<<"beacon", instance_id>>}
  /\ aws' = [ aws EXCEPT !.logGroup = TRUE ]
  /\ UNCHANGED <<call, agent, spec, file, mirror, cmd, pc, result, caller, mem, loc, run, hist>>

AgentPublishBeacon(instance_id) ==
  /\ aws.stacks["beacon"] = "exists"
  /\ aws.bucket
  /\ markers' = markers \cup {<<"beacon", instance_id>>}
  /\ aws' = [ aws EXCEPT !.logGroup = TRUE,    \* a running node has logged
                         !.pki = @ \cup {<<"beacon", instance_id,
                                           encrypt_file(to_zstd(KeyFile))>>} ]
  /\ UNCHANGED <<call, agent, spec, file, mirror, cmd, pc, result, caller, mem, loc, run, hist>>

\* an instance of the non-beacon group publishes its marker
AgentPublishNonBeacon(instance_id) ==
  /\ aws.stacks["nonbeacon"] = "exists"
  /\ aws.bucket
  /\ markers' = markers \cup {<<"non-beacon", instance_id>>}
  /\ aws' = [ aws EXCEPT !.logGroup = TRUE,
                         !.pki = @ \cup {<<"non-beacon", instance_id,
                                           encrypt_file(to_zstd(KeyFile))>>} ]
  /\ UNCHANGED <<call, agent, spec, file, mirror, cmd, pc, result, caller, mem, loc, run, hist>>

\* ----------------------------------------------- avalanched, step by step
\* the key handle is optional
RequiredTagsWithoutKey == {"ID", "NODE_TYPE", "S3_BUCKET_NAME"}

\* the tags main panics without
RequiredTags == {"ID", "NODE_TYPE", "KMS_CMK_ARN", "S3_BUCKET_NAME"}

\* an unwrap() on an Err, or a panic!(): the process is gone, the disk stays
AgentPanics(a) ==
  [ a EXCEPT !.pc = "off", !.end = "panic", !.node_id = 0, !.peers = NoPeers ]

AgentGoes(a, p) == [ a EXCEPT !.pc = p ]

OrchestratorIdle ==
  UNCHANGED <<call, spec, file, mirror, cmd, pc, result, caller, mem, loc, run, hist>>

\* systemd starts the agent
AgentStart(i) ==
  /\ agent[i].pc = "off"
  /\ agent' = [ agent EXCEPT ![i] = [ @ EXCEPT !.pc = "metadata", !.end = "" ] ]
  /\ OrchestratorIdle /\ UNCHANGED <<aws, markers>>

\* "fetching intance metadata using IMDSv2", load_config
AgentMetadata(i, ok) ==
  /\ agent[i].pc = "metadata"
  /\ agent' = [ agent EXCEPT ![i] =
                  IF ok THEN AgentGoes(@, "fetch_tags") ELSE AgentPanics(@) ]
  /\ OrchestratorIdle /\ UNCHANGED <<aws, markers>>

\* "fetching tags from the local instance" and the four is_empty() tests
AgentFetchTags(i, ok) ==
  /\ agent[i].pc = "fetch_tags"
  /\ agent' = [ agent EXCEPT ![i] =
                  IF ~ok THEN AgentPanics(@)
                  ELSE IF RequiredTags \subseteq @.tags THEN AgentGoes(@, "tls")
                  ELSE [ AgentPanics(@) EXCEPT !.end = "tag not found" ] ]
  /\ OrchestratorIdle /\ UNCHANGED <<aws, markers>>

\* the certificate generated at every start
TlsGateUngated(a) == TRUE

\* !Path::new(tls_key_path).exists()
TlsGate(a) == "tls_key" \notin a.fs

\* id::load_node_id(tls_cert_path).unwrap()
LoadNodeId(a) ==
  IF "tls_cert" \in a.fs
    THEN [ a EXCEPT !.node_id = a.cert, !.pc = "config" ]
    ELSE AgentPanics(a)

\* "generating TLS certs": cert::generate when the key file is absent
AgentTls(i) ==
  /\ agent[i].pc = "tls"
  /\ TlsGate(agent[i]) => agent[i].cert < MaxCerts
  /\ agent' = [ agent EXCEPT ![i] =
                  IF TlsGate(@)
                    THEN [ @ EXCEPT !.fs = @ \cup {"tls_key", "tls_cert"},
                                    !.cert = @ + 1,
                                    !.pc = "tls_upload" ]
                    ELSE LoadNodeId(@) ]
  /\ OrchestratorIdle /\ UNCHANGED <<aws, markers>>

\* "uploading TLS certs to S3": to_zstd, encrypt_file, put_object, then load_node_id
UploadOutcomes == {"ok", "encrypt_fails", "put_fails"}

AgentTlsUpload(i, outcome) ==
  /\ agent[i].pc = "tls_upload"
  /\ outcome = "ok" => aws.bucket
  /\ agent' = [ agent EXCEPT ![i] =
                  IF outcome = "ok" THEN LoadNodeId(@) ELSE AgentPanics(@) ]
  /\ aws' = IF outcome = "ok"
             THEN [ aws EXCEPT !.pki = @ \cup {<<agent[i].node_type, i,
                                                encrypt_file(to_zstd(KeyFile))>>} ]
             ELSE aws
  /\ OrchestratorIdle /\ UNCHANGED markers

\* "downloading network Config from S3"
AgentConfig(i, ok) ==
  /\ agent[i].pc = "config"
  /\ ok => (aws.bucket /\ mirror # << >>)
  /\ agent' = [ agent EXCEPT ![i] =
                  IF ok THEN AgentGoes(@, "bin") ELSE AgentPanics(@) ]
  /\ OrchestratorIdle /\ UNCHANGED <<aws, markers>>

\* "downloading avalanche binary from S3" when the binary is absent
AgentBin(i, ok) ==
  /\ agent[i].pc = "bin"
  /\ ok => aws.bucket
  /\ agent' = [ agent EXCEPT ![i] =
                  IF "avalanche_bin" \in @.fs THEN AgentGoes(@, "plugins")
                  ELSE IF ok THEN [ @ EXCEPT !.fs = @ \cup {"avalanche_bin"},
                                             !.pc = "plugins" ]
                  ELSE AgentPanics(@) ]
  /\ OrchestratorIdle /\ UNCHANGED <<aws, markers>>

\* "downloading plugins from S3" when the directory is absent: create_dir_all
\* comes first, the downloads fill the directory
AgentPlugins(i, ok) ==
  /\ agent[i].pc = "plugins"
  /\ ok => aws.bucket
  /\ agent' = [ agent EXCEPT ![i] =
                  IF "plugins_dir" \in @.fs THEN AgentGoes(@, "genesis")
                  ELSE IF ok THEN [ @ EXCEPT !.fs = @ \cup {"plugins_dir", "plugins"},
                                             !.pc = "genesis" ]
                  ELSE AgentPanics([ @ EXCEPT !.fs = @ \cup {"plugins_dir"} ]) ]
  /\ OrchestratorIdle /\ UNCHANGED <<aws, markers>>

\* "downloading genesis file from S3" when the file is absent
AgentGenesis(i, ok) ==
  /\ agent[i].pc = "genesis"
  /\ ok => aws.bucket
  /\ agent' = [ agent EXCEPT ![i] =
                  IF "genesis" \in @.fs THEN AgentGoes(@, "peers")
                  ELSE IF ok THEN [ @ EXCEPT !.fs = @ \cup {"genesis"},
                                             !.pc = "peers" ]
                  ELSE AgentPanics(@) ]
  /\ OrchestratorIdle /\ UNCHANGED <<aws, markers>>

\* get_object and load_beacon_node of a listed object: the address and the
\* node ID its beacon published
load_beacon_node(s3_key) ==
  [ ip |-> <<"ip", s3_key[2]>>, id |-> <<"NodeID", s3_key[2]>> ]

\* if !objects.is_empty(): both lists filled object by object, then the flags
BootstrapPeers(objects) ==
  IF objects = << >> THEN NoPeers
  ELSE [ flags |-> TRUE,
         ips |-> [ j \in 1..Len(objects) |-> load_beacon_node(objects[j]).ip ],
         ids |-> [ j \in 1..Len(objects) |-> load_beacon_node(objects[j]).id ] ]

\* the role is not looked at
PeersGateAnyRole(s, node_type) == ~is_mainnet(s)

\* !config.is_mainnet() && node_type.eq("non-beacon")
PeersGate(s, node_type) == ~is_mainnet(s) /\ node_type = "non-beacon"

\* "downloading beacon node information": one bootstrap peer per object listed
AgentPeers(i, ok) ==
  /\ agent[i].pc = "peers"
  /\ ok => aws.bucket
  /\ agent' = [ agent EXCEPT ![i] =
                  IF ~PeersGate(spec, @.node_type) THEN AgentGoes(@, "service")
                  ELSE IF ok THEN [ @ EXCEPT !.peers = BootstrapPeers(list_objects("beacon")),
                                             !.pc = "service" ]
                  ELSE AgentPanics(@) ]
  /\ OrchestratorIdle /\ UNCHANGED <<aws, markers>>

\* "setting up avalanche node service file", systemctl enable and restart
AgentService(i, ok) ==
  /\ agent[i].pc = "service"
  /\ agent' = [ agent EXCEPT ![i] =
                  IF ok THEN [ @ EXCEPT !.fs = @ \cup {"service"},
                                        !.pc = "sleep" ]
                  ELSE AgentPanics(@) ]
  /\ OrchestratorIdle /\ UNCHANGED <<aws, markers>>

\* loop { thread::sleep(Duration::from_secs(10)); ..
AgentSleep(i) ==
  /\ agent[i].pc = "sleep"
  /\ agent' = [ agent EXCEPT ![i] = AgentGoes(@, "loop") ]
  /\ OrchestratorIdle /\ UNCHANGED <<aws, markers>>

\* every role publishes
PublishGateEveryRole(node_type) == TRUE

\* if node_type.eq("beacon")
PublishGate(node_type) == node_type = "beacon"

\* put_object(.., "{BeaconNodesDir}/{instance_id}.yaml")
Published(instance_id) == markers \cup {<<"beacon", instance_id>>}

\* .. "publishing beacon node information": put_object(..).unwrap() }
AgentLoop(i, ok) ==
  /\ agent[i].pc = "loop"
  /\ ok => aws.bucket
  /\ IF ~PublishGate(agent[i].node_type)
       THEN /\ ok
            /\ agent' = [ agent EXCEPT ![i] = AgentGoes(@, "sleep") ]
            /\ UNCHANGED markers
       ELSE IF ok
              THEN /\ markers' = Published(i)
                   /\ agent' = [ agent EXCEPT ![i] = AgentGoes(@, "sleep") ]
              ELSE /\ agent' = [ agent EXCEPT ![i] = AgentPanics(@) ]
                   /\ UNCHANGED markers
  /\ OrchestratorIdle /\ UNCHANGED aws

\* the agent is killed, or its instance restarts: the disk stays
AgentCrash(i) ==
  /\ agent[i].pc # "off"
  /\ agent' = [ agent EXCEPT ![i] =
                  [ @ EXCEPT !.pc = "off", !.end = "killed", !.node_id = 0,
                             !.peers = NoPeers ] ]
  /\ OrchestratorIdle /\ UNCHANGED <<aws, markers>>

Next ==
  \/ \E c \in Identities : ExecuteApply(c)
  \/ ApplyIdentity
  \/ \E proceed \in BOOLEAN : ApplyPrompt(proceed)
  \/ ApplyS3
  \/ ApplyKms
  \/ ApplyEc2Key
  \/ ApplyEc2KeySeal
  \/ ApplySync
  \/ ApplyPut
  \/ ApplyRoleCreate
  \/ \E o \in PollOutcomes, K \in SUBSET RoleOutputKeys : ApplyRolePoll(o, K)
  \/ ApplyVpcCreate
  \/ \E o \in PollOutcomes, K \in SUBSET VpcOutputKeys : ApplyVpcPoll(o, K)
  \/ ApplyAsgParameters
  \/ ApplyBeaconCreate
  \/ \E o \in PollOutcomes, K \in SUBSET AsgOutputKeys : ApplyBeaconPoll(o, K)
  \/ ApplyListAsg
  \/ ApplyBeaconWait
  \/ ApplyNonBeaconCreate
  \/ \E o \in PollOutcomes, K \in SUBSET AsgOutputKeys : ApplyNonBeaconPoll(o, K)
  \/ ApplyNonBeaconWait
  \/ ApplyHealthStart
  \/ \E ret \in HealthReturns : ApplyHealthProbe(ret)
  \/ ApplyDone
  \/ \E c \in Identities, delete_all \in BOOLEAN : ExecuteDelete(c, delete_all)
  \/ DeleteIdentity
  \/ \E proceed \in BOOLEAN : DeletePrompt(proceed)
  \/ DeleteEc2Key
  \/ DeleteKms
  \/ DeleteTrigger
  \/ \E o \in {"complete", "timeout"} : DeleteConfirm(o)
  \/ DeleteAll
  \/ Kill
  \/ \E i \in BeaconInstances : AgentPublishBeacon(i)
  \/ \E i \in NonBeaconInstances : AgentPublishNonBeacon(i)

Spec == Init /\ [][Next]_vars

\* ------------------------------------------- default-spec and validate alone
\* default-spec: default_aws, validate()?, sync(spec_file_path)
ExecuteDefaultSpec(missing, network_name) ==
  /\ pc = "idle" /\ result = "none"
  /\ LET s == default_aws(missing, network_name)
     IN /\ spec' = s
        /\ IF validate(s)
             THEN file' = EmptyResources /\ result' = "spec_saved"
             ELSE result' = "err_validate" /\ UNCHANGED file
  /\ run' = Did("default-spec")
  /\ UNCHANGED <<call, agent, mirror, cmd, pc, caller, mem, loc, hist, aws, markers>>

\* the Spec files a user can hand to apply: every count up to one past its limit
ValidateNetworks == {"", "mainnet", "fuji", "local", "custom"}

ValidateInputs ==
  [ id : {"", "avalanche-ops"}, network : ValidateNetworks, region : {"", "us-west-2"},
    missing : {{}} \cup { {a} : a \in InstallArtifacts },
    s3_bucket_db_backup : {None},
    beacon_nodes : 0..(MAX_MACHINE_BEACON_NODES + 1),
    non_beacon_nodes : 0..(MAX_MACHINE_NON_BEACON_NODES + 1) ]

InitValidate ==
  /\ spec \in ValidateInputs
  /\ file \in {EmptyResources, [EmptyResources EXCEPT !.identity = 1]}
  /\ mirror = << >>
  /\ cmd = "none"
  /\ pc = "idle"
  /\ result = "none"
  /\ caller = 1
  /\ mem = EmptyResources
  /\ loc = InitLoc
  /\ run = InitRun
  /\ hist = [ anchorsObserved |-> 0 ]
  /\ aws = [ bucket |-> FALSE, keys |-> 0, backup |-> FALSE, logGroup |-> FALSE,
             keyPair |-> FALSE, sealedKey |-> {}, pki |-> {},
             stacks |-> [k \in StackKinds |-> "none"] ]
  /\ markers = {}
  /\ call = NoCall
  /\ agent = [ i \in AgentIds |-> Stopped(Tags, "beacon") ]

NextValidate ==
  \/ \E c \in Identities : ExecuteApply(c)
  \/ \E missing \in {{}} \cup { {a} : a \in InstallArtifacts },
        network_name \in ValidateNetworks : ExecuteDefaultSpec(missing, network_name)

SpecValidate == InitValidate /\ [][NextValidate]_vars

\* ------------------------------------------ the agents of a provisioned fleet
\* the tags of an instance: all of them, or all but one; at most one instance
\* of the two lacks a tag
TagSets == {Tags} \cup { Tags \ {t} : t \in Tags }

InitAgent ==
  /\ spec \in [ id : {"avalanche-ops"}, network : Networks, region : {"us-west-2"},
                missing : {{}}, s3_bucket_db_backup : {None},
                beacon_nodes : {1}, non_beacon_nodes : {1} ]
  /\ file = EmptyResources
  /\ mirror = <<EmptyResources>>
  /\ cmd = "none"
  /\ pc = "idle"
  /\ result = "none"
  /\ caller = 1
  /\ mem = EmptyResources
  /\ loc = InitLoc
  /\ run = InitRun
  /\ hist = [ anchorsObserved |-> 0 ]
  /\ aws = [ bucket |-> TRUE, keys |-> 1, backup |-> FALSE, logGroup |-> FALSE,
             keyPair |-> TRUE, sealedKey |-> {seal_aes_256_file(pack_file(KeyFile))}, pki |-> {},
             stacks |-> [k \in StackKinds |-> "exists"] ]
  /\ markers = {}
  /\ call = NoCall
  /\ \E t1 \in TagSets, t2 \in TagSets :
       /\ t1 = Tags \/ t2 = Tags
       /\ agent = (1 :> Stopped(t1, "beacon")) @@ (2 :> Stopped(t2, "non-beacon"))

NextAgent ==
  \/ \E i \in AgentIds : AgentStart(i)
  \/ \E i \in AgentIds, ok \in BOOLEAN : AgentMetadata(i, ok)
  \/ \E i \in AgentIds, ok \in BOOLEAN : AgentFetchTags(i, ok)
  \/ \E i \in AgentIds : AgentTls(i)
  \/ \E i \in AgentIds, o \in UploadOutcomes : AgentTlsUpload(i, o)
  \/ \E i \in AgentIds, ok \in BOOLEAN : AgentConfig(i, ok)
  \/ \E i \in AgentIds, ok \in BOOLEAN : AgentBin(i, ok)
  \/ \E i \in AgentIds, ok \in BOOLEAN : AgentPlugins(i, ok)
  \/ \E i \in AgentIds, ok \in BOOLEAN : AgentGenesis(i, ok)
  \/ \E i \in AgentIds, ok \in BOOLEAN : AgentPeers(i, ok)
  \/ \E i \in AgentIds, ok \in BOOLEAN : AgentService(i, ok)
  \/ \E i \in AgentIds : AgentSleep(i)
  \/ \E i \in AgentIds, ok \in BOOLEAN : AgentLoop(i, ok)
  \/ \E i \in AgentIds : AgentCrash(i)

SpecAgent == InitAgent /\ [][NextAgent]_vars

\* a started agent is a running process: the machine schedules it and its
\* sleep returns, so a step it can take is taken; whether a call it makes
\* succeeds, and whether it is killed, stays with the environment
AgentRuns(i) ==
  \/ \E ok \in BOOLEAN : AgentMetadata(i, ok)
  \/ \E ok \in BOOLEAN : AgentFetchTags(i, ok)
  \/ AgentTls(i)
  \/ \E o \in UploadOutcomes : AgentTlsUpload(i, o)
  \/ \E ok \in BOOLEAN : AgentConfig(i, ok)
  \/ \E ok \in BOOLEAN : AgentBin(i, ok)
  \/ \E ok \in BOOLEAN : AgentPlugins(i, ok)
  \/ \E ok \in BOOLEAN : AgentGenesis(i, ok)
  \/ \E ok \in BOOLEAN : AgentPeers(i, ok)
  \/ \E ok \in BOOLEAN : AgentService(i, ok)
  \/ AgentSleep(i)
  \/ \E ok \in BOOLEAN : AgentLoop(i, ok)

InitAgentFair ==
  /\ InitAgent
  /\ spec.network = "custom"
  /\ \A i \in AgentIds : agent[i].tags = Tags

SpecAgentFair ==
  InitAgentFair /\ [][NextAgent]_vars /\ \A i \in AgentIds : WF_vars(AgentRuns(i))

\* ------------------------------------------------- the peers step alone
\* an agent whose boot has reached the peers step
AtPeers(node_type) ==
  [ Stopped(Tags, node_type) EXCEPT
      !.pc = "peers", !.cert = 1, !.node_id = 1,
      !.fs = {"tls_key", "tls_cert", "avalanche_bin", "plugins_dir", "plugins", "genesis"} ]

\* the beacons of the fleet that have published, in any number
InitPeers ==
  /\ spec \in [ id : {"avalanche-ops"}, network : Networks, region : {"us-west-2"},
                missing : {{}}, s3_bucket_db_backup : {None},
                beacon_nodes : {MaxBeacon}, non_beacon_nodes : {1} ]
  /\ file = EmptyResources
  /\ mirror = <<EmptyResources>>
  /\ cmd = "none"
  /\ pc = "idle"
  /\ result = "none"
  /\ caller = 1
  /\ mem = EmptyResources
  /\ loc = InitLoc
  /\ run = InitRun
  /\ hist = [ anchorsObserved |-> 0 ]
  /\ \E nt \in [AgentIds -> NodeTypes] :
       /\ agent = [ i \in AgentIds |-> AtPeers(nt[i]) ]
       /\ aws = [ bucket |-> TRUE, keys |-> 1, backup |-> FALSE, logGroup |-> FALSE,
                  keyPair |-> TRUE, sealedKey |-> {seal_aes_256_file(pack_file(KeyFile))},
                  pki |-> { <<nt[i], i, encrypt_file(to_zstd(KeyFile))>> : i \in AgentIds },
                  stacks |-> [k \in StackKinds |-> "exists"] ]
  /\ markers \in SUBSET { <<"beacon", i>> : i \in BeaconInstances }
  /\ call = NoCall

NextPeers ==
  \/ \E i \in AgentIds, ok \in BOOLEAN : AgentPeers(i, ok)
  \/ \E i \in AgentIds, ok \in BOOLEAN : AgentService(i, ok)

SpecPeers == InitPeers /\ [][NextPeers]_vars

\* every variable but call, as before anything is provisioned
Unprovisioned ==
  /\ spec \in [ id : {"avalanche-ops"}, network : {"custom"}, region : {"us-west-2"},
                missing : {{}}, s3_bucket_db_backup : {None},
                beacon_nodes : {1}, non_beacon_nodes : {1} ]
  /\ file = EmptyResources
  /\ mirror = << >>
  /\ cmd = "none"
  /\ pc = "idle"
  /\ result = "none"
  /\ caller = 1
  /\ mem = EmptyResources
  /\ loc = InitLoc
  /\ run = InitRun
  /\ hist = [ anchorsObserved |-> 0 ]
  /\ aws = [ bucket |-> FALSE, keys |-> 0, backup |-> FALSE, logGroup |-> FALSE,
             keyPair |-> FALSE, sealedKey |-> {}, pki |-> {},
             stacks |-> [k \in StackKinds |-> "none"] ]
  /\ markers = {}
  /\ agent = [ i \in AgentIds |-> Stopped(Tags, "beacon") ]

\* ------------------------------------------------------------------ naming
\* A name is the list of its tokens: "/" and "-" are the separators, every
\* other token stands for a run of characters without a separator.
IdTokens == {"a", "/", "pki"}

\* validate asks of an id that it is not empty
Ids == UNION { [1..n -> IdTokens] : n \in 1..MaxIdLen }

KeyPaths ==
  {"ConfigFile", "PkiKeyDir", "DiscoverReadyBeaconNodesDir",
   "DiscoverReadyNonBeaconNodesDir"}
MailboxPaths == {"DiscoverReadyBeaconNodesDir", "DiscoverReadyNonBeaconNodesDir"}
StackNames == {"Vpc", "AsgBeaconNodes"}
NameKinds == KeyPaths \cup StackNames

\* the key layout: {id}/config.yaml, {id}/pki, {id}/discover/ready/anchor,
\* {id}/discover/ready/non-anchor; a stack name is {id}-{kind}
NameSuffix ==
  [ ConfigFile |-> <<"/", "config.yaml">>,
    PkiKeyDir |-> <<"/", "pki">>,
    DiscoverReadyBeaconNodesDir |-> <<"/", "discover", "/", "ready", "/", "anchor">>,
    DiscoverReadyNonBeaconNodesDir |->
        <<"/", "discover", "/", "ready", "/", "non-anchor">>,
    Vpc |-> <<"-", "vpc">>,
    AsgBeaconNodes |-> <<"-", "asg", "-", "beacon", "-", "nodes">> ]

\* KeyPath::X(id).encode(), StackName::X(id).encode()
encode(id, kind) == id \o NameSuffix[kind]

IsPrefix(p, q) == Len(p) <= Len(q) /\ SubSeq(q, 1, Len(p)) = p

IsSuffix(p, q) == Len(p) <= Len(q) /\ SubSeq(q, Len(q) - Len(p) + 1, Len(q)) = p

\* the inverse of encode: the kind is read off the end of the name, the id is
\* what stands before it; << >> for a name of no kind
decode(name) ==
  LET ks == { k \in NameKinds : IsSuffix(NameSuffix[k], name)
                                  /\ Len(name) > Len(NameSuffix[k]) }
  IN IF ks = {} THEN << >>
     ELSE LET k == CHOOSE k \in ks : \A j \in ks : Len(NameSuffix[k]) >= Len(NameSuffix[j])
          IN <<SubSeq(name, 1, Len(name) - Len(NameSuffix[k])), k>>

\* aws_s3::append_slash
append_slash(p) == IF p # << >> /\ p[Len(p)] = "/" THEN p ELSE Append(p, "/")

\* the prefix apply lists: append_slash(&KeyPath::..Dir(spec.id.clone()).encode())
MailboxPrefix(id, kind) == append_slash(encode(id, kind))

\* the key an agent puts its marker at: format!("{}/{}.yaml", dir, instance_id)
MarkerKey(id, kind, instance_id) == encode(id, kind) \o <<"/", "i.yaml">>

InitNaming ==
  /\ Unprovisioned
  /\ \E id1 \in Ids, id2 \in Ids, k1 \in NameKinds, k2 \in NameKinds :
       call = [ fn |-> "names", arg |-> <<id1, k1, id2, k2>>, ret |-> << >> ]

Evaluates(fn, ret) ==
  /\ call' = [ call EXCEPT !.fn = fn, !.ret = ret ]
  /\ UNCHANGED <<spec, file, mirror, cmd, pc, result, caller, mem, loc, run, hist,
                 aws, markers, agent>>

\* the names of two resources are derived from their ids
EncodeNames ==
  /\ call.fn = "names"
  /\ Evaluates("encode", <<encode(call.arg[1], call.arg[2]),
                           encode(call.arg[3], call.arg[4])>>)

\* the two names are read back
DecodeNames ==
  /\ call.fn = "encode"
  /\ Evaluates("decode", <<decode(call.ret[1]), decode(call.ret[2])>>)

\* apply lists the mailbox of the first resource while an agent has put its
\* marker in the mailbox of the second
ListMailbox ==
  /\ call.fn = "names"
  /\ call.arg[2] \in MailboxPaths /\ call.arg[4] \in MailboxPaths
  /\ Evaluates("list", <<MailboxPrefix(call.arg[1], call.arg[2]),
                         MarkerKey(call.arg[3], call.arg[4], 1)>>)

NextNaming == EncodeNames \/ DecodeNames \/ ListMailbox

SpecNaming == InitNaming /\ [][NextNaming]_vars

\* ------------------------------------------- avalanchego::Config::validate
\* network ids: unset, mainnet, fuji, a custom network
NetworkIds == {None, 1, 5, 1337}

\* a node configuration, and what is at the path its genesis field names
NodeConfigs ==
  [ network_id : NetworkIds,
    genesis : {None, 1},
    genesis_exists : BOOLEAN,          \* Path::new(genesis).exists()
    genesis_network_id : {1, 1337},    \* network_id of the Genesis loaded from it
    staking_enabled : {"none", "true", "false"},
    staking_tls_cert_file : {None, 1},
    staking_tls_key_file : {None, 1} ]

\* self.network_id.is_none() || self.network_id.unwrap() == 1
avalanchego_is_mainnet(c) == c.network_id = None \/ c.network_id = 1

\* Config::validate of avalanchego.rs: the first return Err(..) reached, or Ok
avalanchego_validate(c) ==
  IF c.network_id = None /\ c.genesis # None THEN "non-empty genesis but empty network-id"
  ELSE IF c.network_id # None /\ c.genesis = None
    THEN "non-empty network-id but empty genesis"
  ELSE IF c.genesis # None /\ ~c.genesis_exists THEN "genesis file does not exist"
  ELSE IF c.genesis # None /\ c.genesis_network_id # c.network_id
    THEN "genesis network ID != network_id"
  ELSE IF c.staking_enabled = "false" THEN "staking-enabled must be true"
  ELSE IF c.staking_tls_cert_file = None THEN "staking-tls-cert-file not defined"
  ELSE IF c.staking_tls_key_file = None THEN "staking-tls-key-file not defined"
  ELSE "ok"

InitNodeConfig ==
  /\ Unprovisioned
  /\ \E c \in NodeConfigs : call = [ fn |-> "config", arg |-> c, ret |-> "" ]

ValidateNodeConfig ==
  /\ call.fn = "config"
  /\ Evaluates("validate", avalanchego_validate(call.arg))

IsMainnetNodeConfig ==
  /\ call.fn = "config"
  /\ Evaluates("is_mainnet", IF avalanchego_is_mainnet(call.arg) THEN "true" ELSE "false")

NextNodeConfig == ValidateNodeConfig \/ IsMainnetNodeConfig

SpecNodeConfig == InitNodeConfig /\ [][NextNodeConfig]_vars

\* ------------------------------------------------------------ sync and load
\* A scalar is a natural: for a String field 0 is the empty string, for an
\* Option field 0 is None and any other number is Some(..).
Scalars == {None, 1, 2}

\* A field of a struct, with its serde attributes: the key it is written
\* under, whether it is an Option, whether skip_serializing_if =
\* "Option::is_none" is set, and what a missing key is read as (<< >> for a
\* field that has to be there).
Field(name, key, opt, skip, dflt) ==
  [ name |-> name, key |-> key, opt |-> opt, skip |-> skip, dflt |-> dflt ]

\* network::BeaconNode, rename_all = "snake_case"
BeaconNodeFields ==
  { Field("ip", "ip", FALSE, FALSE, <<0>>),
    Field("id", "id", FALSE, FALSE, <<0>>) }

\* a missing beacon_nodes read as the default count
ConfigFieldsBeaconDefaulted ==
  { Field("id", "id", FALSE, FALSE, <<0>>),
    Field("network_id", "network_id", FALSE, FALSE, <<0>>),
    Field("snow_sample_size", "snow_sample_size", TRUE, FALSE, <<None>>),
    Field("beacon_nodes", "machine.beacon_nodes", TRUE, TRUE,
          <<DEFAULT_MACHINE_BEACON_NODES>>),
    Field("non_beacon_nodes", "machine.non_beacon_nodes", FALSE, FALSE, <<0>>),
    Field("aws_resources", "aws_resources", TRUE, TRUE, <<None>>) }

\* network::Config with its Machine, rename_all = "snake_case"
ConfigFields ==
  { Field("id", "id", FALSE, FALSE, <<0>>),
    Field("network_id", "network_id", FALSE, FALSE, <<0>>),
    Field("snow_sample_size", "snow_sample_size", TRUE, FALSE, <<None>>),
    Field("beacon_nodes", "machine.beacon_nodes", TRUE, TRUE, <<None>>),
    Field("non_beacon_nodes", "machine.non_beacon_nodes", FALSE, FALSE, <<0>>),
    Field("aws_resources", "aws_resources", TRUE, TRUE, <<None>>) }

\* avalanchego::Config, rename_all = "kebab-case", every field an Option
\* that is skipped when None
NodeConfigFields ==
  { Field("config_file", "config-file", TRUE, TRUE, <<None>>),
    Field("genesis", "genesis", TRUE, TRUE, <<None>>),
    Field("network_id", "network-id", TRUE, TRUE, <<None>>) }

\* avalanchego::Genesis: networkID has to be there
GenesisFields ==
  { Field("network_id", "networkID", FALSE, FALSE, << >>),
    Field("start_time", "startTime", TRUE, TRUE, <<None>>),
    Field("message", "message", TRUE, TRUE, <<None>>) }

Fields ==
  [ Config |-> ConfigFields, BeaconNode |-> BeaconNodeFields,
    NodeConfig |-> NodeConfigFields, Genesis |-> GenesisFields ]

ValueKinds == DOMAIN Fields

Names(kind) == { f.name : f \in Fields[kind] }

FieldNamed(kind, name) == CHOOSE f \in Fields[kind] : f.name = name

FieldKeyed(kind, key) == CHOOSE f \in Fields[kind] : f.key = key

Values(kind) == [ Names(kind) -> Scalars ]

\* sync: serde_yaml::to_vec / serde_json::to_vec, then File::create and
\* write_all. The file is the mapping written: a None is left out if the
\* field is skipped when None, and written as null otherwise.
sync(kind, v) ==
  LET written == { f \in Fields[kind] : ~(f.opt /\ v[f.name] = None) }
      nulled == { f \in Fields[kind] : f.opt /\ ~f.skip /\ v[f.name] = None }
  IN [ vals |-> [ k \in { f.key : f \in written } |-> v[FieldKeyed(kind, k).name] ],
       nulls |-> { f.key : f \in nulled } ]

\* load: serde_yaml::from_reader / serde_json::from_reader. A null or a
\* missing key of an Option is None, another missing key is its default, or
\* an error if it has none.
load(kind, doc) ==
  LET absent == { f \in Fields[kind] : f.key \notin DOMAIN doc.vals }
  IN IF \E f \in absent : ~f.opt /\ (f.dflt = << >> \/ f.key \in doc.nulls)
       THEN [ ok |-> FALSE, value |-> [ n \in Names(kind) |-> 0 ] ]
       ELSE [ ok |-> TRUE,
              value |-> [ n \in Names(kind) |->
                            LET f == FieldNamed(kind, n)
                            IN IF f.key \in DOMAIN doc.vals THEN doc.vals[f.key]
                               ELSE IF f.key \in doc.nulls THEN None
                               ELSE f.dflt[1] ] ]

\* a path that holds no file yet
NoFile == [ vals |-> << >>, nulls |-> {} ]

InitRoundTrip ==
  /\ Unprovisioned
  /\ \E kind \in ValueKinds : \E v \in Values(kind) :
       call = [ fn |-> "value", arg |-> <<kind, v>>,
                ret |-> [ file |-> NoFile, loaded |-> << >> ] ]

\* value.sync(path)
SyncValue ==
  /\ call.fn = "value"
  /\ Evaluates("sync", [ call.ret EXCEPT !.file = sync(call.arg[1], call.arg[2]) ])

\* load(path)
LoadFile ==
  /\ call.fn \in {"sync", "resync"}
  /\ Evaluates(IF call.fn = "sync" THEN "load" ELSE "reload",
               [ call.ret EXCEPT !.loaded = Append(@, load(call.arg[1], call.ret.file)) ])

\* loaded.sync(path), over the file
SyncLoaded ==
  /\ call.fn = "load"
  /\ call.ret.loaded[1].ok
  /\ Evaluates("resync", [ call.ret EXCEPT
                             !.file = sync(call.arg[1], call.ret.loaded[1].value) ])

NextRoundTrip == SyncValue \/ LoadFile \/ SyncLoaded

SpecRoundTrip == InitRoundTrip /\ [][NextRoundTrip]_vars

\* ------------------------------------------------------------ formatting
CHECKSUM_LENGTH == 4

ByteSamples == {0, 1, 255}

ByteSeqs == UNION { [1..n -> ByteSamples] : n \in 0..MaxBytes }

\* the last CHECKSUM_LENGTH bytes of hash::compute_sha256(d), tabled for
\* the sequences over ByteSamples
Checksum(d) ==
  CASE
       d = << >> -> <<120, 82, 184, 85>> []
       d = <<0>> -> <<23, 175, 160, 29>> []
       d = <<1>> -> <<119, 133, 69, 154>> []
       d = <<255>> -> <<120, 50, 235, 137>> []
       d = <<0, 0>> -> <<10, 9, 207, 199>> []
       d = <<0, 1>> -> <<100, 91, 200, 210>> []
       d = <<0, 255>> -> <<22, 147, 137, 184>> []
       d = <<1, 0>> -> <<129, 21, 242, 84>> []
       d = <<1, 1>> -> <<113, 139, 167, 178>> []
       d = <<1, 255>> -> <<207, 11, 225, 29>> []
       d = <<255, 0>> -> <<44, 16, 119, 47>> []
       d = <<255, 1>> -> <<207, 24, 78, 182>> []
       d = <<255, 255>> -> <<137, 141, 225, 187>> []
       d = <<0, 0, 0>> -> <<112, 248, 20, 124>> []
       d = <<0, 0, 1>> -> <<70, 3, 197, 104>> []
       d = <<0, 0, 255>> -> <<35, 17, 212, 112>> []
       d = <<0, 1, 0>> -> <<84, 111, 242, 1>> []
       d = <<0, 1, 1>> -> <<142, 47, 15, 94>> []
       d = <<0, 1, 255>> -> <<42, 92, 192, 146>> []
       d = <<0, 255, 0>> -> <<202, 11, 49, 19>> []
       d = <<0, 255, 1>> -> <<204, 0, 17, 35>> []
       d = <<0, 255, 255>> -> <<171, 163, 116, 4>> []
       d = <<1, 0, 0>> -> <<119, 245, 242, 34>> []
       d = <<1, 0, 1>> -> <<53, 22, 209, 91>> []
       d = <<1, 0, 255>> -> <<48, 248, 165, 61>> []
       d = <<1, 1, 0>> -> <<38, 25, 84, 64>> []
       d = <<1, 1, 1>> -> <<36, 14, 33, 12>> []
       d = <<1, 1, 255>> -> <<99, 188, 149, 167>> []
       d = <<1, 255, 0>> -> <<170, 105, 185, 165>> []
       d = <<1, 255, 1>> -> <<47, 126, 36, 0>> []
       d = <<1, 255, 255>> -> <<154, 87, 240, 179>> []
       d = <<255, 0, 0>> -> <<208, 1, 71, 103>> []
       d = <<255, 0, 1>> -> <<41, 147, 146, 181>> []
       d = <<255, 0, 255>> -> <<244, 134, 34, 73>> []
       d = <<255, 1, 0>> -> <<52, 244, 86, 27>> []
       d = <<255, 1, 1>> -> <<251, 202, 68, 82>> []
       d = <<255, 1, 255>> -> <<179, 190, 199, 236>> []
       d = <<255, 255, 0>> -> <<90, 251, 237, 133>> []
       d = <<255, 255, 1>> -> <<124, 182, 215, 94>> []
       d = <<255, 255, 255>> -> <<142, 191, 183, 76>>

RECURSIVE StripZeros(_)
StripZeros(b) == IF b = << >> \/ b[1] # 0 THEN b ELSE StripZeros(Tail(b))

LeadingZeros(b) == Len(b) - Len(StripZeros(b))

\* long division of a big-endian byte string by 58: <<quotient, remainder>>
RECURSIVE DivBy58(_, _)
DivBy58(b, r) ==
  IF b = << >> THEN << << >>, r >>
  ELSE LET cur == r * 256 + b[1]
           rest == DivBy58(Tail(b), cur % 58)
       IN << <<cur \div 58>> \o rest[1], rest[2] >>

RECURSIVE Digits58(_)
Digits58(b) ==
  LET t == StripZeros(b)
  IN IF t = << >> THEN << >>
     ELSE LET qr == DivBy58(t, 0) IN Append(Digits58(qr[1]), qr[2])

\* base58::encode_slice: a character is its index in the alphabet; each
\* leading zero byte is one leading '1' (index 0)
base58_encode_slice(b) == [ i \in 1..LeadingZeros(b) |-> 0 ] \o Digits58(b)

\* b * 58 + c over a big-endian byte string
RECURSIVE MulAdd58(_, _)
MulAdd58(b, c) ==
  IF b = << >> THEN IF c = 0 THEN << >> ELSE <<c>>
  ELSE LET v == b[Len(b)] * 58 + c
       IN Append(MulAdd58(SubSeq(b, 1, Len(b) - 1), v \div 256), v % 256)

RECURSIVE Bytes58(_)
Bytes58(str) ==
  IF str = << >> THEN << >>
  ELSE MulAdd58(Bytes58(SubSeq(str, 1, Len(str) - 1)), str[Len(str)])

\* base58::from: an error for a character outside the alphabet
base58_from(str) ==
  IF \E i \in 1..Len(str) : str[i] \notin 0..57
    THEN [ kind |-> "Err", bytes |-> << >> ]
    ELSE [ kind |-> "Ok",
           bytes |-> [ i \in 1..LeadingZeros(str) |-> 0 ] \o StripZeros(Bytes58(str)) ]

encode_cb58_with_checksum(d) == base58_encode_slice(d \o Checksum(d))

\* the checksum is not looked at
decode_cb58_unverified(str) ==
  LET decoded == base58_from(str)
  IN IF decoded.kind = "Err" THEN decoded
     ELSE IF Len(decoded.bytes) < CHECKSUM_LENGTH
       THEN [ kind |-> "abort", bytes |-> << >> ]
     ELSE [ kind |-> "Ok",
            bytes |-> SubSeq(decoded.bytes, 1, Len(decoded.bytes) - CHECKSUM_LENGTH) ]

\* decoded_length - CHECKSUM_LENGTH is a usize: the subtraction aborts (or
\* wraps, and the slice then aborts) when fewer than 4 bytes were decoded
decode_cb58_with_checksum(str) ==
  LET decoded == base58_from(str)
  IN IF decoded.kind = "Err" THEN decoded
     ELSE IF Len(decoded.bytes) < CHECKSUM_LENGTH
       THEN [ kind |-> "abort", bytes |-> << >> ]
     ELSE LET n == Len(decoded.bytes) - CHECKSUM_LENGTH
              checksum == SubSeq(decoded.bytes, n + 1, Len(decoded.bytes))
              orig == SubSeq(decoded.bytes, 1, n)
          IN IF checksum # Checksum(orig)
               THEN [ kind |-> "Err", bytes |-> << >> ]
               ELSE [ kind |-> "Ok", bytes |-> orig ]

\* hex::encode: two digits a byte, the high one first
hex_encode(d) ==
  [ i \in 1..(2 * Len(d)) |->
      IF i % 2 = 1 THEN d[(i + 1) \div 2] \div 16 ELSE d[i \div 2] % 16 ]

\* hex::decode: an error for an odd length and for a character that is not
\* a hex digit
hex_decode(str) ==
  IF Len(str) % 2 = 1 \/ \E i \in 1..Len(str) : str[i] \notin 0..15
    THEN [ kind |-> "Err", bytes |-> << >> ]
    ELSE [ kind |-> "Ok",
           bytes |-> [ i \in 1..(Len(str) \div 2) |->
                         16 * str[2 * i - 1] + str[2 * i] ] ]

\* the same slices as in decode_cb58_with_checksum, taken of hex::decode(d)
decode_hex_with_checksum(str) ==
  LET decoded == hex_decode(str)
  IN IF decoded.kind = "Err" THEN decoded
     ELSE IF Len(decoded.bytes) < CHECKSUM_LENGTH
       THEN [ kind |-> "abort", bytes |-> << >> ]
     ELSE LET n == Len(decoded.bytes) - CHECKSUM_LENGTH
              checksum == SubSeq(decoded.bytes, n + 1, Len(decoded.bytes))
              orig == SubSeq(decoded.bytes, 1, n)
          IN IF checksum # Checksum(orig)
               THEN [ kind |-> "Err", bytes |-> << >> ]
               ELSE [ kind |-> "Ok", bytes |-> orig ]

NotDecoded == [ kind |-> "none", bytes |-> << >> ]

InitFormatting ==
  /\ Unprovisioned
  /\ \E d \in ByteSeqs :
       call = [ fn |-> "bytes", arg |-> d,
                ret |-> [ str |-> << >>, out |-> NotDecoded ] ]

EncodeBytes ==
  /\ call.fn = "bytes"
  /\ Evaluates("encode", [ call.ret EXCEPT !.str = encode_cb58_with_checksum(call.arg) ])

\* a string that encodes the bytes with one byte of the checksum changed
TamperChecksum ==
  /\ call.fn = "encode"
  /\ \E i \in 1..CHECKSUM_LENGTH : \E delta \in {1, 255} :
       LET c == Checksum(call.arg)
           bad == [ c EXCEPT ![i] = (@ + delta) % 256 ]
       IN Evaluates("tamper", [ call.ret EXCEPT
                                 !.str = base58_encode_slice(call.arg \o bad) ])

\* a string cut short: of fewer than CHECKSUM_LENGTH characters, it decodes
\* to fewer than CHECKSUM_LENGTH bytes
TruncateString ==
  /\ call.fn = "encode"
  /\ \E n \in 0..(CHECKSUM_LENGTH - 1) :
       Evaluates("truncate", [ call.ret EXCEPT !.str = SubSeq(@, 1, n) ])

DecodeString ==
  /\ call.fn \in {"encode", "tamper", "truncate"}
  /\ Evaluates(CASE call.fn = "encode" -> "decode"
                 [] call.fn = "tamper" -> "decode_tampered"
                 [] call.fn = "truncate" -> "decode_short",
               [ call.ret EXCEPT !.out = decode_cb58_with_checksum(call.ret.str) ])

\* the hex strings handed to decode_hex_with_checksum: the bytes with their
\* checksum, the bytes without it, and the former less its last digit
HexInputs == {"checked", "bare", "odd"}

HexString(d, input) ==
  LET checked == hex_encode(d \o Checksum(d))
  IN CASE input = "checked" -> checked
       [] input = "bare" -> hex_encode(d)
       [] input = "odd" -> SubSeq(checked, 1, Len(checked) - 1)

DecodeHex(input) ==
  /\ call.fn = "bytes"
  /\ LET str == HexString(call.arg, input)
     IN Evaluates("decode_hex_" \o input,
                  [ str |-> str, out |-> decode_hex_with_checksum(str) ])

NextFormatting ==
  \/ EncodeBytes
  \/ TamperChecksum
  \/ TruncateString
  \/ DecodeString
  \/ \E input \in HexInputs : DecodeHex(input)

SpecFormatting == InitFormatting /\ [][NextFormatting]_vars

\* ------------------------------------------------------- stack-poll timeout
\* 50-minute
MAX_WAIT_SECONDS == 50 * 60

\* the four polls of a compute group's stack
PollSites == {"create_beacon", "create_non_beacon", "delete_non_beacon", "delete_beacon"}

\* the sum used as it is
wait_secs_uncapped(desired_capacity) == 300 + 60 * desired_capacity

\* "add 5-minute for ELB creation": let mut wait_secs = 300 + 60 *
\* desired_capacity as u64; if wait_secs > MAX_WAIT_SECONDS { wait_secs =
\* MAX_WAIT_SECONDS; }   (a u32 count: the u64 sum cannot overflow)
wait_secs(desired_capacity) ==
  LET sum == 300 + 60 * desired_capacity
  IN IF sum > MAX_WAIT_SECONDS THEN MAX_WAIT_SECONDS ELSE sum

InitTimeout ==
  /\ Unprovisioned
  /\ \E site \in PollSites, n \in 0..MaxCapacity :
       call = [ fn |-> "poll", arg |-> <<site, n>>, ret |-> 0 ]

\* poll_stack(.., Duration::from_secs(wait_secs), Duration::from_secs(30))
PollStack ==
  /\ call.fn = "poll"
  /\ Evaluates("poll_stack", wait_secs(call.arg[2]))

NextTimeout == PollStack

SpecTimeout == InitTimeout /\ [][NextTimeout]_vars

\* ---------------------------------------------------------- load generator
\* the load kinds a spec may name; "bogus" is a kind the generator does not know
LoadKindNames == {"x-transfer", "c-transfer", "subnet-evm-transfer", "bogus"}

\* blizzard::LoadKind::from
LoadKindFrom(lk) ==
  IF lk \in {"x-transfer", "c-transfer", "subnet-evm-transfer"} THEN lk ELSE "unknown"

LoadSpecs ==
  [ load_kinds : UNION { [1..n -> LoadKindNames] : n \in 0..MaxLoadKinds },
    subnet_evm_blockchain_id : {"", "2ebC"} ]

\* a spawned task: its own clone of the spec, its own wallet and faucet
Task(chain) == [ chain |-> chain, pc |-> "setup", last |-> "none" ]

InitLoad ==
  /\ Unprovisioned
  /\ \E sp \in LoadSpecs :
       call = [ fn |-> "execute", arg |-> sp,
                ret |-> [ next |-> 1, handles |-> << >>, result |-> "running" ] ]

LoadRunning == call.fn = "execute" /\ call.ret.result = "running"

\* the subnet-evm kind spawned whatever the endpoints carry
SpawnNextUnchecked ==
  /\ LoadRunning /\ call.ret.next <= Len(call.arg.load_kinds)
  /\ LET kind == LoadKindFrom(call.arg.load_kinds[call.ret.next])
         r == [ call.ret EXCEPT !.next = @ + 1 ]
     IN call' = [ call EXCEPT !.ret =
          IF kind = "x-transfer" THEN [ r EXCEPT !.handles = Append(@, Task("X")) ]
          ELSE IF kind = "c-transfer" THEN [ r EXCEPT !.handles = Append(@, Task("C")) ]
          ELSE IF kind = "subnet-evm-transfer"
            THEN [ r EXCEPT !.handles = Append(@, Task(call.arg.subnet_evm_blockchain_id)) ]
          ELSE [ r EXCEPT !.result = "invalid load kind" ] ]
  /\ UNCHANGED <<spec, file, mirror, cmd, pc, result, caller, mem, loc, run,
                 hist, aws, markers, agent>>

\* one turn of "for lk in spec.blizzard_spec.load_kinds.iter()"
SpawnNext ==
  /\ LoadRunning /\ call.ret.next <= Len(call.arg.load_kinds)
  /\ LET kind == LoadKindFrom(call.arg.load_kinds[call.ret.next])
         r == [ call.ret EXCEPT !.next = @ + 1 ]
     IN call' = [ call EXCEPT !.ret =
          IF kind = "x-transfer" THEN [ r EXCEPT !.handles = Append(@, Task("X")) ]
          ELSE IF kind = "c-transfer" THEN [ r EXCEPT !.handles = Append(@, Task("C")) ]
          ELSE IF kind = "subnet-evm-transfer"
            THEN IF call.arg.subnet_evm_blockchain_id = ""
                   THEN [ r EXCEPT !.result = "invalid load kind subnet-evm (not exists)" ]
                   ELSE [ r EXCEPT !.handles =
                                     Append(@, Task(call.arg.subnet_evm_blockchain_id)) ]
          ELSE [ r EXCEPT !.result = "invalid load kind" ] ]
  /\ UNCHANGED <<spec, file, mirror, cmd, pc, result, caller, mem, loc, run,
                 hist, aws, markers, agent>>

\* what a call of a task to an endpoint comes to
TaskOutcomes == {"ok", "balance_err", "transfer_err"}

\* a step of make_x_transfers or make_evm_transfers: the faucet is set up with
\* unwrap(); in the transfer loop an Err of balance() or of the transfer is
\* logged with log::warn! and the loop goes on
TaskStep(j, outcome) ==
  /\ LoadRunning /\ j \in 1..Len(call.ret.handles)
  /\ LET t == call.ret.handles[j]
     IN /\ t.pc # "panicked"
        /\ t.pc = "setup" => outcome # "transfer_err"
        /\ call' = [ call EXCEPT !.ret.handles[j] =
                       IF t.pc = "setup"
                         THEN IF outcome = "ok" THEN [ t EXCEPT !.pc = "loop" ]
                              ELSE [ t EXCEPT !.pc = "panicked", !.last = outcome ]
                         ELSE [ t EXCEPT !.last = outcome ] ]
  /\ UNCHANGED <<spec, file, mirror, cmd, pc, result, caller, mem, loc, run,
                 hist, aws, markers, agent>>

\* "blocking on handles via JoinHandle": the await of the first handle
\* returns only when its task has ended, and a task ends only by a panic
JoinHandles ==
  /\ LoadRunning /\ call.ret.next > Len(call.arg.load_kinds)
  /\ IF call.ret.handles = << >>
       THEN call' = [ call EXCEPT !.ret.result = "ok" ]
       ELSE /\ call.ret.handles[1].pc = "panicked"
            /\ call' = [ call EXCEPT !.ret.result = "failed await on JoinHandle" ]
  /\ UNCHANGED <<spec, file, mirror, cmd, pc, result, caller, mem, loc, run,
                 hist, aws, markers, agent>>

NextLoad ==
  \/ SpawnNext
  \/ \E j \in 1..MaxLoadKinds, outcome \in TaskOutcomes : TaskStep(j, outcome)
  \/ JoinHandles

SpecLoad == InitLoad /\ [][NextLoad]_vars

\* ------------------------------------------------- the EVM transfer task
\* values random_manager::u8() may return
U8Samples == {0, 1, 2, 255}

\* the balance of a funded key on the chain: zero, or not
EvmBalances == {0, 50}

\* make_evm_transfers up to the rotation loop: the index drawn, the key k,
\* the wallet built from k and the balance read through it
InitFaucet ==
  /\ Unprovisioned
  /\ \E total_funded_keys \in 1..MaxFunded, u \in U8Samples :
       \E balances \in [1..total_funded_keys -> EvmBalances] :
         LET faucet_idx == u % total_funded_keys
         IN call = [ fn |-> "make_evm_transfers",
                     arg |-> [ balances |-> balances ],
                     ret |-> [ pc |-> "rotate", faucet_idx |-> faucet_idx,
                               k |-> faucet_idx, faucet_wallet |-> faucet_idx,
                               evm_bal |-> balances[faucet_idx + 1],
                               sent |-> << >> ] ]

\* loop { if !evm_bal.is_zero() { break; } faucet_idx = (faucet_idx + 1) %
\* total_funded_keys; let k = ..; faucet_wallet = ..; evm_bal = .. }: the k
\* bound in the block is another variable than the k of the function
RotateFaucet ==
  /\ call.fn = "make_evm_transfers" /\ call.ret.pc = "rotate"
  /\ LET total_funded_keys == Len(call.arg.balances)
         faucet_idx == (call.ret.faucet_idx + 1) % total_funded_keys
     IN call' = [ call EXCEPT !.ret =
                    IF @.evm_bal # 0
                      THEN [ @ EXCEPT !.pc = "send" ]
                      ELSE [ @ EXCEPT !.faucet_idx = faucet_idx,
                                      !.faucet_wallet = faucet_idx,
                                      !.evm_bal = call.arg.balances[faucet_idx + 1] ] ]
  /\ UNCHANGED <<spec, file, mirror, cmd, pc, result, caller, mem, loc, run,
                 hist, aws, markers, agent>>

EvmOutcomes == {"balance_err", "ok", "transfer_err"}

\* "sending C-chain transfers": local_wallet = k.signing_key().into(), the
\* balance, the target drawn, eip1559().to(..).value(..).submit(); the transfer
\* sent last is kept
SendEvmTransfer(u, outcome) ==
  /\ call.fn = "make_evm_transfers" /\ call.ret.pc = "send"
  /\ LET total_funded_keys == Len(call.arg.balances)
         local_wallet == call.ret.k
         target_idx == (call.ret.faucet_idx + u) % total_funded_keys
     IN call' = [ call EXCEPT !.ret.sent =
                    IF outcome = "balance_err" THEN @
                    ELSE << [ signer |-> local_wallet,
                              wallet |-> call.ret.faucet_wallet,
                              target_idx |-> target_idx,
                              result |-> outcome ] >> ]
  /\ UNCHANGED <<spec, file, mirror, cmd, pc, result, caller, mem, loc, run,
                 hist, aws, markers, agent>>

NextFaucet ==
  \/ RotateFaucet
  \/ \E u \in U8Samples, outcome \in EvmOutcomes : SendEvmTransfer(u, outcome)

SpecFaucet == InitFaucet /\ [][NextFaucet]_vars

\* =========================================================== properties
CreatePhases == {"kms", "ec2key", "role", "vpc", "beacon", "nonbeacon"}

\* every field a phase sets is None in r
PhaseUnset(phase, r) ==
  CASE phase = "kms" -> r.kms_cmk_id = None /\ r.kms_cmk_arn = None
    [] phase = "ec2key" -> r.ec2_key_path = None
    [] phase = "role" -> r.cloudformation_ec2_instance_profile_arn = None
    [] phase = "vpc" -> /\ r.cloudformation_vpc_id = None
                        /\ r.cloudformation_vpc_security_group_id = None
                        /\ r.cloudformation_vpc_public_subnet_ids = None
    [] phase = "beacon" -> r.cloudformation_asg_beacon_nodes_logical_id = None
    [] phase = "nonbeacon" -> r.cloudformation_asg_non_beacon_nodes_logical_id = None

\* every field a phase sets is Some in r
PhaseSet(phase, r) ==
  CASE phase = "kms" -> r.kms_cmk_id # None /\ r.kms_cmk_arn # None
    [] phase = "ec2key" -> r.ec2_key_path # None
    [] phase = "role" -> r.cloudformation_ec2_instance_profile_arn # None
    [] phase = "vpc" -> /\ r.cloudformation_vpc_id # None
                        /\ r.cloudformation_vpc_security_group_id # None
                        /\ r.cloudformation_vpc_public_subnet_ids # None
    [] phase = "beacon" -> r.cloudformation_asg_beacon_nodes_logical_id # None
    [] phase = "nonbeacon" -> r.cloudformation_asg_non_beacon_nodes_logical_id # None

\* the phases that apply to this Spec: no beacon group on mainnet
Applicable(phase) == phase = "beacon" => spec.beacon_nodes > 0

AllSetExceptNonBeacon(r) ==
  /\ \A ph \in CreatePhases \ {"nonbeacon"} : Applicable(ph) => PhaseSet(ph, r)
  /\ PhaseUnset("nonbeacon", r)

\* C1: a run of apply issues a creation call only for a phase whose fields
\* were unset in the record it loaded; a run that succeeds has issued one for
\* exactly the unset phases; and a run that loaded a record with everything
\* set but the non-beacon group issues the non-beacon stack creation only.
IdempotentResume ==
  /\ \A ph \in run.created : PhaseUnset(ph, run.loaded)
  /\ result = "applied" =>
       run.created = { ph \in CreatePhases : Applicable(ph) /\ PhaseUnset(ph, run.loaded) }
  /\ AllSetExceptNonBeacon(run.loaded) =>
       /\ run.created \subseteq {"nonbeacon"}
       /\ result = "applied" => run.created = {"nonbeacon"}

IdempotentResumeWitness ==
  /\ result = "applied"
  /\ AllSetExceptNonBeacon(run.loaded)
  /\ run.created = {"nonbeacon"}

\* C2: a field of the record that is set in the Spec file keeps its value in
\* every later content of the Spec file.
MonotonicResources ==
  [][ \A f \in ResourceFields : file[f] # None => file'[f] = file[f] ]_vars

\* a run that loaded a record with the key set has written the file again
MonotonicResourcesWitness ==
  /\ run.loaded.kms_cmk_id # None
  /\ run.wrote
  /\ file.kms_cmk_id = run.loaded.kms_cmk_id

\* C3: no run issues a create call for a stack that already exists, i.e.
\* that an earlier run created.
NoStackRecreated ==
  [][ \A k \in StackKinds :
        (k \in run'.created /\ k \notin run.created) => aws.stacks[k] = "none" ]_vars

\* C4: whenever apply is at a cloud call or a wait, every field it has set
\* in memory so far is in the Spec file.
CloudCallPcs ==
  { "s3", "kms", "ec2key", "ec2key_seal", "role", "role_poll", "vpc", "vpc_poll",
    "beacon", "beacon_poll", "beacon_list_asg", "beacon_wait",
    "nonbeacon", "nonbeacon_poll", "nonbeacon_list_asg", "nonbeacon_wait",
    "health" } \cup DOMAIN PutNext

PersistBeforeNextPhase ==
  (cmd = "apply" /\ pc \in CloudCallPcs) =>
     \A f \in ResourceFields : mem[f] # None => file[f] = mem[f]

\* C5: the phases of one run occur in the fixed order, and a creation call is
\* issued only when every earlier applicable phase has its fields set.
PhaseRank(phase) == CHOOSE i \in 1..Len(Phases) : Phases[i] = phase

PhaseNames == { Phases[i] : i \in 1..Len(Phases) }

TraceOrdered ==
  \A i, j \in 1..Len(run.trace) :
     (i < j /\ run.trace[i] \in PhaseNames /\ run.trace[j] \in PhaseNames)
        => PhaseRank(run.trace[i]) < PhaseRank(run.trace[j])

StrictPhaseOrder ==
  /\ []TraceOrdered
  /\ [][ \A ph \in CreatePhases :
           (ph \in run'.created /\ ph \notin run.created) =>
              \A q \in CreatePhases :
                 (PhaseRank(q) < PhaseRank(ph) /\ Applicable(q)) => PhaseSet(q, mem) ]_vars

\* C6: on a custom network the non-beacon stack creation is issued only
\* after a beacon wait has listed at least machine.beacon_nodes markers.
StartupOrdering ==
  [][ ("nonbeacon" \in run'.created /\ "nonbeacon" \notin run.created
         /\ ~is_mainnet(spec))
      => (spec.beacon_nodes >= 1 /\ hist.anchorsObserved >= spec.beacon_nodes) ]_vars

StartupOrderingWitness ==
  /\ ~is_mainnet(spec)
  /\ "nonbeacon" \in run.created
  /\ hist.anchorsObserved >= spec.beacon_nodes

\* C7: a wait returns only when at least target_count markers exist under its
\* prefix, and then with one Node per marker key: as many nodes as markers,
\* no duplicates; with fewer markers a poll stays in the wait, and the wait
\* itself never returns Ok or Err (only the end of the process ends it).
MarkerIds(kind) == { i \in Instances : <<kind, i>> \in markers }

WaitKind == IF pc = "beacon_wait" THEN "beacon" ELSE "non-beacon"

WaitTarget == IF pc = "beacon_wait" THEN spec.beacon_nodes ELSE spec.non_beacon_nodes

NewNodes == SubSeq(loc'.all_nodes, Len(loc.all_nodes) + 1, Len(loc'.all_nodes))

WaitReturns ==
  \/ pc = "beacon_wait" /\ pc' = "beacon_sync"
  \/ pc = "nonbeacon_wait" /\ pc' = "nonbeacon_sync"

RendezvousStep ==
  (cmd = "apply" /\ pc \in {"beacon_wait", "nonbeacon_wait"}) =>
     LET k == Cardinality(MarkerIds(WaitKind))
     IN /\ (k < WaitTarget) => (pc' = pc \/ result' = "killed")
        /\ (k >= WaitTarget /\ pc' = pc) => loc' = loc
        /\ WaitReturns =>
             /\ k >= WaitTarget
             /\ SubSeq(loc'.all_nodes, 1, Len(loc.all_nodes)) = loc.all_nodes
             /\ Len(NewNodes) = k
             /\ \A a, b \in 1..Len(NewNodes) : a # b => NewNodes[a] # NewNodes[b]
             /\ { NewNodes[a] : a \in 1..Len(NewNodes) } =
                  { [ kind |-> WaitKind, machine_id |-> i ] : i \in MarkerIds(WaitKind) }

Unhealthy == {"some_false", "none", "err"}

HealthLoop ==
  (cmd = "apply" /\ pc = "health") =>
     /\ loc.attempt < HealthAttempts
     /\ run.ret \in Unhealthy => loc.attempt >= 1
     /\ run.ret = "some_true" => loc.attempt = 0

HealthProbeStep ==
  (cmd = "apply" /\ pc = "health" /\ loc' # loc /\ result' # "killed"
     /\ loc.node <= Len(loc.all_nodes)) =>
       /\ run'.ret = "some_true" => (pc' = "health" /\ loc'.node = loc.node + 1)
       /\ (run'.ret \in Unhealthy /\ loc.attempt + 1 < HealthAttempts) =>
             (pc' = "health" /\ loc'.node = loc.node /\ loc'.attempt = loc.attempt + 1)
       /\ (run'.ret \in Unhealthy /\ loc.attempt + 1 = HealthAttempts) =>
             result' = "err_health"
       /\ result' = "err_health" =>
             (run'.ret \in Unhealthy /\ loc.attempt + 1 = HealthAttempts)

HealthBoundedFailClosed == []HealthLoop /\ [][HealthProbeStep]_vars

HealthBoundedFailClosedWitness ==
  /\ result = "err_health"
  /\ run.ret = "err"

\* C9: the identity in the Spec file never changes once recorded; apply has
\* recorded the caller before it goes on; and a run issues a cloud create or
\* delete call only when the recorded identity is the caller's, so a run by
\* another caller, and delete without a recorded identity, fail before any.
IdentityPinned ==
  /\ run.mutated => file.identity = caller
  /\ (cmd = "apply" /\ pc # "get_identity") => file.identity = caller
  /\ result = "err_identity" => (~run.mutated /\ ~run.wrote)

IdentityPinning ==
  /\ []IdentityPinned
  /\ [][ file.identity # None => file'.identity = file.identity ]_vars
  /\ [][ (pc = "get_identity" /\ pc' # pc /\ result' # "killed"
            /\ (file.identity = None => cmd = "delete")
            /\ file.identity # caller) => result' = "err_identity" ]_vars

IdentityPinningWitness ==
  /\ result = "err_identity"
  /\ file.identity # None
  /\ file.identity # caller

\* C10: apply on a Spec that breaks a validation rule returns the error
\* without a cloud call and without writing the Spec file.
BreaksValidationRule(s) ==
  \/ s.network = "mainnet" /\ s.beacon_nodes > 0
  \/ s.network # "mainnet" /\ (s.beacon_nodes = 0 \/ s.beacon_nodes > 10)
  \/ s.non_beacon_nodes < 1
  \/ s.non_beacon_nodes > 20

ConfigErrorBeforeCloudCalls ==
  /\ result = "err_validate" => (~run.called /\ ~run.mutated /\ ~run.wrote)
  /\ BreaksValidationRule(spec) =>
       /\ cmd # "apply"
       /\ result \in {"err_validate", "err_identity", "none", "killed", "running"}
       /\ file = EmptyResources
       /\ ~aws.bucket

ConfigErrorBeforeCloudCallsWitness ==
  /\ result = "err_validate"
  /\ BreaksValidationRule(spec)

\* C11: validate fails for mainnet with beacon nodes, for a custom network
\* with 0 or more than 10 beacon nodes, and for a non-beacon count outside
\* 1..20; with the other fields valid it succeeds for mainnet without beacon
\* nodes and for a custom network with 1..10 of them, the non-beacon count
\* being in 1..20.
IsCustomNetwork(s) == s.network \notin ({"", "mainnet"} \cup UnsupportedNetworks)

OtherFieldsValid(s) == s.id # "" /\ s.missing = {} /\ s.region # ""

\* apply has loaded and validated spec
Validated == run.trace = << >> /\ result \in {"err_validate", "running"}

ValidationBoundaries ==
  Validated =>
    /\ (spec.network = "mainnet" /\ spec.beacon_nodes > 0) => result = "err_validate"
    /\ (IsCustomNetwork(spec) /\ (spec.beacon_nodes = 0 \/ spec.beacon_nodes > 10))
          => result = "err_validate"
    /\ (spec.non_beacon_nodes < 1 \/ spec.non_beacon_nodes > 20)
          => result = "err_validate"
    /\ ( /\ OtherFieldsValid(spec)
         /\ spec.non_beacon_nodes \in 1..20
         /\ \/ spec.network = "mainnet" /\ spec.beacon_nodes = 0
            \/ IsCustomNetwork(spec) /\ spec.beacon_nodes \in 1..10 )
          => result = "running"

\* validate has accepted a custom network at both upper limits
ValidationBoundariesWitness ==
  /\ Validated /\ result = "running"
  /\ IsCustomNetwork(spec)
  /\ spec.beacon_nodes = 10
  /\ spec.non_beacon_nodes = 20

\* C12: the Spec default-spec saves has no beacon nodes for mainnet and 3
\* otherwise, 2 non-beacon nodes and every field of the record unset, and
\* default-spec, which validates it, saves one for mainnet and for every
\* custom network name when the artifacts it names exist.
DefaultSpecValid ==
  run.trace = <<"default-spec">> =>
    /\ result \in {"spec_saved", "err_validate"}
    /\ result = "spec_saved" =>
         /\ spec.beacon_nodes = (IF spec.network = "mainnet" THEN 0 ELSE 3)
         /\ spec.non_beacon_nodes = 2
         /\ file = EmptyResources
    /\ (spec.missing = {} /\ (spec.network = "mainnet" \/ IsCustomNetwork(spec)))
         => result = "spec_saved"

DefaultSpecValidWitness ==
  /\ run.trace = <<"default-spec">>
  /\ result = "spec_saved"
  /\ IsCustomNetwork(spec)
  /\ spec.beacon_nodes = 3

\* C13: a run of delete requests the deletion of the non-beacon stack before
\* that of the beacon stack; it requests the deletion of the VPC stack only
\* after the compute stacks of the record are confirmed DeleteComplete; and
\* when it reports success every deletion it requested has been confirmed.
InTrace(x) == \E i \in 1..Len(run.trace) : run.trace[i] = x

Pos(x) == CHOOSE i \in 1..Len(run.trace) : run.trace[i] = x

Before(x, y) == InTrace(x) /\ InTrace(y) /\ Pos(x) < Pos(y)

TeardownOrder ==
  /\ (InTrace("delete:nonbeacon") /\ InTrace("delete:beacon"))
        => Before("delete:nonbeacon", "delete:beacon")
  /\ InTrace("delete:vpc") =>
        \A k \in {"beacon", "nonbeacon"} :
           (DeleteGate(k, spec, run.loaded) \/ InTrace("delete:" \o k))
              => /\ Before("delete:" \o k, "confirmed:" \o k)
                 /\ Before("confirmed:" \o k, "delete:vpc")
  /\ result = "deleted" =>
        \A k \in StackKinds :
           (DeleteGate(k, spec, run.loaded) \/ InTrace("delete:" \o k))
              => Before("delete:" \o k, "confirmed:" \o k)

\* delete has succeeded on a fleet with all four stacks
TeardownOrderWitness ==
  /\ result = "deleted"
  /\ \A k \in StackKinds : InTrace("delete:" \o k) /\ InTrace("confirmed:" \o k)

\* C14: the state bucket and the log group are removed only by a delete run
\* with delete_all, which does remove them; no step of any run removes the
\* bucket of the database backups.
DeleteAllFrameStep ==
  /\ aws.backup => aws'.backup
  /\ ((aws.bucket /\ ~aws'.bucket) \/ (aws.logGroup /\ ~aws'.logGroup))
        => (cmd = "delete" /\ loc.delete_all)
  /\ (cmd = "delete" /\ loc.delete_all /\ result' = "deleted")
        => (~aws'.bucket /\ ~aws'.logGroup)

DeleteAllFrame == [][DeleteAllFrameStep]_vars

\* delete with delete_all has succeeded and the backup bucket is still there
DeleteAllFrameWitness ==
  /\ result = "deleted"
  /\ InTrace("delete:bucket")
  /\ aws.backup
  /\ ~aws.bucket /\ ~aws.logGroup

\* an agent that has done nothing but start, read its metadata and its tags
Untouched(i) ==
  /\ agent[i].pc \in {"off", "metadata", "fetch_tags"}
  /\ agent[i].fs = {} /\ agent[i].cert = 0 /\ agent[i].node_id = 0
  /\ (\A x \in aws.pki : x[2] # i) /\ <<"beacon", i>> \notin markers

\* C15 as stated: an agent whose instance lacks any of the six tags of the
\* schema aborts before it generates its identity, calls object storage or
\* key management, or installs the node service
MandatoryTagsAllSix ==
  \A i \in AgentIds : ~(Tags \subseteq agent[i].tags) => Untouched(i)

\* C15: an agent whose instance lacks one of the tags ID, NODE_TYPE,
\* KMS_CMK_ARN, S3_BUCKET_NAME aborts before it generates its identity, calls
\* object storage or key management, or installs the node service
MandatoryTags ==
  \A i \in AgentIds :
    \A t \in {"ID", "NODE_TYPE", "KMS_CMK_ARN", "S3_BUCKET_NAME"} :
      t \notin agent[i].tags => Untouched(i)

MandatoryTagsWitness ==
  \E i \in AgentIds : /\ "KMS_CMK_ARN" \notin agent[i].tags
                       /\ agent[i].pc = "off" /\ agent[i].end = "tag not found"

\* the artifact each Ensured step of the bootstrap tests for
EnsuredArtifact ==
  [ tls |-> "tls_key", bin |-> "avalanche_bin", plugins |-> "plugins_dir",
    genesis |-> "genesis" ]

\* agent i takes an Ensured step whose artifact is on its disk
EnsuredAgain(i) ==
  /\ agent[i].pc \in DOMAIN EnsuredArtifact
  /\ EnsuredArtifact[agent[i].pc] \in agent[i].fs
  /\ agent'[i] # agent[i]

\* C16: across restarts of the agent, an Ensured step (TLS identity, node
\* binary, plugins, genesis) whose artifact is present is skipped: it changes
\* nothing on disk or in the cloud and cannot fail; the certificate is never
\* generated again, and the node ID loaded is the one of the first boot
BootstrapIdempotent ==
  [][\A i \in AgentIds :
       /\ EnsuredAgain(i) =>
            /\ agent'[i].fs = agent[i].fs /\ agent'[i].end # "panic"
            /\ aws' = aws /\ markers' = markers
       /\ agent[i].cert # 0 => agent'[i].cert = agent[i].cert
       /\ agent'[i].node_id \in {0, 1}
       /\ agent'[i].node_id # 0 => agent'[i].node_id = agent'[i].cert]_vars

BootstrapIdempotentWitness ==
  \E i \in AgentIds : /\ agent[i].pc = "peers" /\ "service" \in agent[i].fs
                       /\ agent[i].node_id = 1 /\ agent[i].cert = 1

\* C17: a failed publication of the readiness marker in the steady-state loop
\* is never fatal: whatever the outcome of the put, an agent in its loop
\* stays in it (sleeps, then publishes again) unless it is killed
PublishFailureNotFatal ==
  [][\A i \in AgentIds :
       (agent[i].pc = "loop" /\ agent'[i] # agent[i])
         => (agent'[i].pc = "sleep" \/ agent'[i].end = "killed")]_vars

\* the markers of one role
MarkersOf(m, kind) == { x \in m : x[1] = kind }

\* the step of delete that empties and removes the bucket
DeleteSweepStep == cmd = "delete" /\ pc = "d_all" /\ pc' # pc

\* C19: under any interleaving of the agents with the orchestrator, a step of
\* an agent or of apply removes no marker and adds at most one, the set of
\* markers only grows, and a role whose marker count has reached its target
\* keeps it reached
MailboxAppendOnly ==
  [][~DeleteSweepStep =>
       /\ markers \subseteq markers'
       /\ Cardinality(markers' \ markers) <= 1
       /\ markers' # markers => cmd' = cmd /\ pc' = pc /\ loc' = loc
       /\ Cardinality(MarkersOf(markers, "beacon")) >= spec.beacon_nodes
            => Cardinality(MarkersOf(markers', "beacon")) >= spec'.beacon_nodes
       /\ Cardinality(MarkersOf(markers, "non-beacon")) >= spec.non_beacon_nodes
            => Cardinality(MarkersOf(markers', "non-beacon")) >= spec'.non_beacon_nodes]_vars

MailboxAppendOnlyWitness ==
  /\ cmd = "apply" /\ pc = "nonbeacon_wait"
  /\ spec.beacon_nodes = 2
  /\ Cardinality(MarkersOf(markers, "beacon")) = 2
  /\ Cardinality(MarkersOf(markers, "non-beacon")) = 1

\* C20: a missing expected stack output is fatal: when a stack apply creates
\* (instance role, VPC, beacon group, non-beacon group) completes, apply goes
\* on from that phase only if every output it expects was found; otherwise
\* it fails there and runs no later phase
MissingOutputFatal ==
  [][cmd = "apply" =>
       /\ (pc = "role_poll" /\ pc' \notin {"role_poll", "idle"})
            => mem'.cloudformation_ec2_instance_profile_arn # None
       /\ (pc = "vpc_poll" /\ pc' \notin {"vpc_poll", "idle"})
            => /\ mem'.cloudformation_vpc_id # None
               /\ mem'.cloudformation_vpc_security_group_id # None
               /\ mem'.cloudformation_vpc_public_subnet_ids # None
       /\ (pc = "beacon_poll" /\ pc' \notin {"beacon_poll", "idle"})
            => /\ mem'.cloudformation_asg_beacon_nodes_logical_id # None
               /\ NlbFound(mem')
       /\ (pc = "nonbeacon_poll" /\ pc' \notin {"nonbeacon_poll", "idle"})
            => /\ mem'.cloudformation_asg_non_beacon_nodes_logical_id # None
               /\ NlbFound(mem')]_vars

\* a step in which agent i puts its marker
Publishes(i) == agent[i].pc = "loop" /\ agent'[i].pc = "sleep"
                /\ PublishGate(agent[i].node_type) /\ markers' = Published(i)

\* C18: an agent writes a readiness marker only if its role is beacon and only
\* after its bootstrap (the node service is installed and started), and a
\* beacon agent that keeps running publishes again every period, infinitely
\* often
WriteSide ==
  /\ [][\A i \in AgentIds :
          (<<"beacon", i>> \in markers' /\ <<"beacon", i>> \notin markers)
            => (agent[i].node_type = "beacon" /\ "service" \in agent[i].fs
                  /\ agent[i].pc = "loop")]_vars
  /\ \A i \in AgentIds :
       agent[i].node_type = "beacon"
         => ([]<>(agent[i].pc = "off") \/ []<><<Publishes(i)>>_vars)

WriteSideWitness ==
  \E i \in AgentIds : agent[i].pc = "sleep" /\ <<"beacon", i>> \in markers

\* the files that hold private key material in the bucket
KeyObjects == aws.sealedKey \cup { x[3] : x \in aws.pki }

\* C21: private key material is in object storage only in sealed form: the
\* fleet access key the orchestrator uploads and the TLS key each agent
\* uploads are the key file first compressed, then encrypted; no object is the
\* plaintext key or the merely compressed key
SealedKeysOnly == \A f \in KeyObjects : f = <<"zstd", "encrypted">>

SealedKeysOnlyWitness ==
  /\ aws.sealedKey # {}
  /\ \E x \in aws.pki : x[1] = "beacon"
  /\ \E x \in aws.pki : x[1] = "non-beacon"

\* two names overlap when one is a prefix of the other
Overlap(p, q) == IsPrefix(p, q) \/ IsPrefix(q, p)

\* C22: names are a function of (id, kind) that can be read back; the names
\* of two different ids are different and, for object keys, neither is a
\* prefix of the other; the listing of a mailbox counts a marker exactly
\* when the marker is of the same id and the same role
NamingExclusive ==
  LET id1 == call.arg[1]  k1 == call.arg[2]  id2 == call.arg[3]  k2 == call.arg[4]
  IN /\ call.fn = "encode" =>
          /\ (call.ret[1] = call.ret[2]) <=> (id1 = id2 /\ k1 = k2)
          /\ (id1 # id2 /\ k1 \in KeyPaths /\ k2 \in KeyPaths)
                => ~Overlap(call.ret[1], call.ret[2])
     /\ call.fn = "decode" => call.ret = << <<id1, k1>>, <<id2, k2>> >>
     /\ call.fn = "list" =>
          (IsPrefix(call.ret[1], call.ret[2]) <=> (id1 = id2 /\ k1 = k2))

\* the fields validate tests besides the genesis rule are in order
NodeConfigOtherwiseValid(c) ==
  /\ c.genesis # None => (c.genesis_exists /\ c.genesis_network_id = c.network_id)
  /\ c.staking_enabled # "false"
  /\ c.staking_tls_cert_file # None /\ c.staking_tls_key_file # None

\* C23: a genesis file is required exactly for a custom network (one that
\* is not mainnet) and forbidden for mainnet: a configuration that is in
\* order otherwise fails validate exactly when it is custom without genesis
\* or mainnet with genesis
GenesisRule ==
  (call.fn = "validate" /\ NodeConfigOtherwiseValid(call.arg))
    => ((call.ret # "ok")
          <=> \/ ~avalanchego_is_mainnet(call.arg) /\ call.arg.genesis = None
              \/ avalanchego_is_mainnet(call.arg) /\ call.arg.genesis # None)

\* C24: a value written with sync and then loaded is the value written, and
\* the value loaded after a sync of the loaded value is again that value
PersistLoadRoundTrip ==
  /\ call.fn \in {"load", "resync", "reload"} =>
       /\ call.ret.loaded[1].ok
       /\ call.ret.loaded[1].value = call.arg[2]
  /\ call.fn = "reload" => call.ret.loaded[2] = call.ret.loaded[1]

PersistLoadRoundTripWitness ==
  /\ call.fn = "reload" /\ call.arg[1] = "Config"
  /\ call.arg[2].beacon_nodes = None /\ call.arg[2].snow_sample_size = None
  /\ call.arg[2].non_beacon_nodes = 2

BadChecksum(str) ==
  LET b == base58_from(str).bytes
      n == Len(b) - CHECKSUM_LENGTH
  IN /\ base58_from(str).kind = "Ok"
     /\ n >= 0
     /\ SubSeq(b, n + 1, Len(b)) # Checksum(SubSeq(b, 1, n))

\* C25: decoding the encoding of d gives Ok(d), and decoding a string whose
\* last 4 decoded bytes are not the checksum of the bytes before them gives
\* an error
CB58RoundTrip ==
  /\ call.fn = "decode" => call.ret.out = [ kind |-> "Ok", bytes |-> call.arg ]
  /\ call.fn = "decode_tampered" /\ BadChecksum(call.ret.str) =>
       call.ret.out.kind = "Err"

CB58RoundTripWitness ==
  /\ call.fn = "decode_tampered" /\ BadChecksum(call.ret.str)
  /\ call.arg = <<0, 255>>

\* the steps of main in the order of its text; the identity step is the
\* generation and the upload, the steady state the sleep and the publication
BootOrder ==
  <<"metadata", "fetch_tags", "tls", "tls_upload", "config", "bin", "plugins",
    "genesis", "peers", "service", "sleep", "loop">>

Rank(p) == CHOOSE n \in 1..Len(BootOrder) : BootOrder[n] = p

\* a step is followed by the next one (the upload is left out when the key
\* is on disk, the loop goes back to its sleep), or the agent is gone
InOrder(p, q) ==
  \/ q = "off"
  \/ p = "off" /\ q = "metadata"
  \/ p # "off" /\ Rank(q) = Rank(p) + 1
  \/ p = "tls" /\ q = "config"
  \/ p = "loop" /\ q = "sleep"

\* what the steps before the service install leave on disk
BootArtifacts == {"tls_key", "tls_cert", "avalanche_bin", "plugins_dir", "plugins", "genesis"}

\* C26: the agent takes its steps in the fixed order, a step before the
\* steady state that fails ends the agent, and the node service is installed
\* only once every earlier step has succeeded: the identity, the binary, the
\* plugins and the genesis are then on disk
BootstrapFailStop ==
  /\ [][\A i \in AgentIds :
          /\ agent'[i].pc # agent[i].pc => InOrder(agent[i].pc, agent'[i].pc)
          /\ agent'[i].end = "panic" /\ agent[i].end # "panic" => agent'[i].pc = "off"
          /\ "service" \in agent'[i].fs /\ "service" \notin agent[i].fs =>
               agent[i].pc = "service"]_vars
  /\ [](\A i \in AgentIds :
          "service" \in agent[i].fs => BootArtifacts \subseteq agent[i].fs)

\* an agent whose boot is past the peers step
PastPeers(i) == agent[i].pc \in {"service", "sleep", "loop"}

AnchorsListed == { m[2] : m \in { x \in markers : x[1] = "beacon" } }

\* both lists have one entry per listed anchor marker, in the order of the
\* listing, entry j of both from the same marker
PeerListsPaired(p) ==
  /\ Len(p.ips) = Cardinality(AnchorsListed) /\ Len(p.ids) = Len(p.ips)
  /\ { p.ips[j][2] : j \in 1..Len(p.ips) } = AnchorsListed
  /\ \A j \in 1..Len(p.ips) :
       /\ p.ips[j][1] = "ip" /\ p.ids[j][1] = "NodeID"
       /\ p.ips[j][2] = p.ids[j][2]
       /\ \A k \in 1..Len(p.ips) : j < k => p.ips[j][2] < p.ips[k][2]

\* C27 as stated: the launch command carries the bootstrap flags if and only
\* if the network is not mainnet and the role is non-anchor, and the two
\* lists are then paired with the listed markers
PeerResolution ==
  \A i \in AgentIds : PastPeers(i) =>
    /\ agent[i].peers.flags <=>
         (spec.network # "mainnet" /\ agent[i].node_type = "non-beacon")
    /\ agent[i].peers.flags => PeerListsPaired(agent[i].peers)
    /\ ~agent[i].peers.flags => agent[i].peers = NoPeers

\* C27: the launch command carries the bootstrap flags if and only if the
\* network is not mainnet, the role is non-anchor and the listing of the
\* anchor mailbox is not empty; the two lists are then paired with the listed
\* markers; an anchor or a mainnet node gets no bootstrap flags
PeerResolutionNonEmpty ==
  \A i \in AgentIds : PastPeers(i) =>
    /\ agent[i].peers.flags <=>
         /\ spec.network # "mainnet" /\ agent[i].node_type = "non-beacon"
         /\ AnchorsListed # {}
    /\ agent[i].peers.flags => PeerListsPaired(agent[i].peers)
    /\ ~agent[i].peers.flags => agent[i].peers = NoPeers

PeerResolutionNonEmptyWitness ==
  \E i \in AgentIds :
    /\ PastPeers(i) /\ agent[i].peers.flags
    /\ Len(agent[i].peers.ids) = MaxBeacon
    /\ \E k \in AgentIds : PastPeers(k) /\ agent[k].node_type = "beacon"

TimeoutOf(n) == IF 300 + 60 * n < 3000 THEN 300 + 60 * n ELSE 3000

\* C29: the timeout of a poll for a group of n instances, on create and on
\* delete, is min(300 + 60 * n, 3000) seconds: it does not shrink when n
\* grows, and it never exceeds 50 minutes
TimeoutBudget ==
  call.fn = "poll_stack" =>
    /\ call.ret = TimeoutOf(call.arg[2])
    /\ call.ret <= 50 * 60
    /\ \A m \in 0..call.arg[2] : TimeoutOf(m) <= call.ret

TimeoutBudgetWitness ==
  /\ call.fn = "poll_stack" /\ call.arg[1] = "delete_beacon"
  /\ call.arg[2] = 46 /\ call.ret = 3000

\* where apply stands when a provisioning phase starts: the keys, the role,
\* the network, the two groups, the two waits and the health verification
PhaseStartPcs ==
  { "kms", "ec2key", "role", "vpc", "asg_params", "beacon_list_asg",
    "nonbeacon", "nonbeacon_list_asg", "health_start" }

\* C28: when a provisioning phase of apply starts, the bucket existing, the
\* mirrored Spec is the local Spec file: what the phase before persisted has
\* been uploaded
MirrorFollowsPersist ==
  (cmd = "apply" /\ aws.bucket /\ pc \in PhaseStartPcs) => mirror = <<file>>

\* the chain a task of a known load kind works on
ChainOf(lk, sp) ==
  IF lk = "x-transfer" THEN "X" ELSE IF lk = "c-transfer" THEN "C"
  ELSE sp.subnet_evm_blockchain_id

\* a load kind for which no task may be spawned
Refused(lk, sp) ==
  \/ lk \notin {"x-transfer", "c-transfer", "subnet-evm-transfer"}
  \/ lk = "subnet-evm-transfer" /\ sp.subnet_evm_blockchain_id = ""

\* C30: one task per configured load kind, in the order configured; an
\* unknown kind, and the subnet-evm kind without a blockchain id, ends execute
\* with an error and no task for it; a step of a task changes that task
\* alone; an error of balance or transfer in the transfer loop leaves the
\* task in its loop
LoadFanOut ==
  /\ [](call.fn = "execute" =>
          LET sp == call.arg
              r == call.ret
              done == r.next - 1
              failed == r.result \in {"invalid load kind",
                                      "invalid load kind subnet-evm (not exists)"}
          IN /\ failed <=> (done >= 1 /\ Refused(sp.load_kinds[done], sp))
             /\ Len(r.handles) = IF failed THEN done - 1 ELSE done
             /\ \A j \in 1..Len(r.handles) :
                  /\ ~Refused(sp.load_kinds[j], sp)
                  /\ r.handles[j].chain = ChainOf(sp.load_kinds[j], sp))
  /\ [][call.fn = "execute" =>
          \A j \in 1..Len(call.ret.handles) :
             call'.ret.handles[j] # call.ret.handles[j] =>
               /\ \A k \in 1..Len(call.ret.handles) :
                    k # j => call'.ret.handles[k] = call.ret.handles[k]
               /\ Len(call'.ret.handles) = Len(call.ret.handles)
               /\ call.ret.handles[j].pc = "loop" => call'.ret.handles[j].pc = "loop"]_vars

LoadFanOutWitness ==
  /\ call.fn = "execute" /\ call.ret.result = "running"
  /\ call.arg.load_kinds = <<"subnet-evm-transfer", "x-transfer">>
  /\ Len(call.ret.handles) = 2
  /\ call.ret.handles[1].last = "balance_err" /\ call.ret.handles[1].pc = "loop"
  /\ call.ret.handles[2].last = "transfer_err"

Set(r, fields) == \A f \in fields : r[f] # None

VpcFields ==
  { "cloudformation_vpc_id", "cloudformation_vpc_security_group_id",
    "cloudformation_vpc_public_subnet_ids" }

\* C31: the fields set in the Spec file are closed under the order of the
\* phases: the non-anchor group's id needs the anchor group's id (on a custom
\* network), which needs the three VPC fields, which need the instance
\* profile ARN, which needs the access key path, which needs the master
\* key's id and ARN
DependencyClosure ==
  /\ (file.cloudformation_asg_non_beacon_nodes_logical_id # None /\ ~is_mainnet(spec))
       => file.cloudformation_asg_beacon_nodes_logical_id # None
  /\ (file.cloudformation_asg_non_beacon_nodes_logical_id # None
        \/ file.cloudformation_asg_beacon_nodes_logical_id # None)
       => Set(file, VpcFields)
  /\ Set(file, VpcFields) => file.cloudformation_ec2_instance_profile_arn # None
  /\ file.cloudformation_ec2_instance_profile_arn # None => file.ec2_key_path # None
  /\ file.ec2_key_path # None => Set(file, {"kms_cmk_id", "kms_cmk_arn"})

Probed(kind) ==
  \A m \in markers : m[1] = kind =>
    \E j \in 1..Len(loc.all_nodes) :
      j < loc.node /\ loc.all_nodes[j] = parse_node_from_s3_path(m)

\* C32: when apply reports success, every node with a marker in the anchor
\* mailbox (on a custom network) and in the non-anchor mailbox was probed
\* during that invocation, also on a resumed run
HealthCoversFleet ==
  [][(cmd = "apply" /\ result' = "applied")
       => /\ ~is_mainnet(spec) => Probed("beacon")
          /\ Probed("non-beacon")]_vars

\* ------------------------------- apply and the agents of the fleet together
\* a valid Spec, one anchor on a custom network, one non-anchor; the first
\* instance is the anchor group's, the second the non-anchor group's
InitLive ==
  /\ spec \in [ id : {"avalanche-ops"}, network : Networks, region : {"us-west-2"},
                missing : {{}}, s3_bucket_db_backup : {None},
                beacon_nodes : {0, 1}, non_beacon_nodes : {1} ]
  /\ validate(spec)
  /\ file = EmptyResources
  /\ mirror = << >>
  /\ cmd = "none"
  /\ pc = "idle"
  /\ result = "none"
  /\ caller = 1
  /\ mem = EmptyResources
  /\ loc = InitLoc
  /\ run = InitRun
  /\ hist = [ anchorsObserved |-> 0 ]
  /\ aws = [ bucket |-> FALSE, keys |-> 0, backup |-> FALSE, logGroup |-> FALSE,
             keyPair |-> FALSE, sealedKey |-> {}, pki |-> {},
             stacks |-> [k \in StackKinds |-> "none"] ]
  /\ markers = {}
  /\ call = NoCall
  /\ agent = (1 :> Stopped(Tags, "beacon")) @@ (2 :> Stopped(Tags, "non-beacon"))

\* the auto scaling group of a created stack launches the instance, and
\* systemd starts the agent on it
AgentLaunch(i) ==
  /\ aws.stacks[IF agent[i].node_type = "beacon" THEN "beacon" ELSE "nonbeacon"] = "exists"
  /\ AgentStart(i)

\* the steps of an agent none of whose calls fails
AgentBoots(i) ==
  \/ AgentLaunch(i)
  \/ AgentMetadata(i, TRUE)
  \/ AgentFetchTags(i, TRUE)
  \/ AgentTls(i)
  \/ AgentTlsUpload(i, "ok")
  \/ AgentConfig(i, TRUE)
  \/ AgentBin(i, TRUE)
  \/ AgentPlugins(i, TRUE)
  \/ AgentGenesis(i, TRUE)
  \/ AgentPeers(i, TRUE)
  \/ AgentService(i, TRUE)
  \/ AgentSleep(i)
  \/ AgentLoop(i, TRUE)

\* the steps of apply when every stack reaches CreateComplete with all its
\* outputs and every probe is answered healthy
ApplySucceeds ==
  \/ ApplyIdentity
  \/ ApplyPrompt(TRUE)
  \/ ApplyS3
  \/ ApplyKms
  \/ ApplyEc2Key
  \/ ApplyEc2KeySeal
  \/ ApplySync
  \/ ApplyPut
  \/ ApplyRoleCreate
  \/ ApplyRolePoll("complete", RoleOutputKeys)
  \/ ApplyVpcCreate
  \/ ApplyVpcPoll("complete", VpcOutputKeys)
  \/ ApplyAsgParameters
  \/ ApplyBeaconCreate
  \/ ApplyBeaconPoll("complete", AsgOutputKeys)
  \/ ApplyListAsg
  \/ ApplyBeaconWait
  \/ ApplyNonBeaconCreate
  \/ ApplyNonBeaconPoll("complete", AsgOutputKeys)
  \/ ApplyNonBeaconWait
  \/ ApplyHealthStart
  \/ ApplyHealthProbe("some_true")
  \/ ApplyDone

\* an object under the non-anchor mailbox comes from a writer outside this
\* source tree, which nothing schedules
NextLive ==
  \/ ExecuteApply(1)
  \/ ApplySucceeds
  \/ \E i \in AgentIds : AgentBoots(i)
  \/ \E i \in NonBeaconInstances : AgentPublishNonBeacon(i)

\* the operator's process and the started agents are running processes:
\* a step they can take is taken
SpecLive ==
  /\ InitLive /\ [][NextLive]_vars
  /\ WF_vars(ApplySucceeds)
  /\ \A i \in AgentIds : WF_vars(AgentBoots(i))

\* C33: on a valid Spec, with every stack complete, every agent booting and
\* running on, and every node healthy, an apply that was started ends with
\* success
ApplyTerminates == (cmd = "apply") ~> (result = "applied")

NlbFields ==
  { "cloudformation_asg_nlb_arn", "cloudformation_asg_nlb_target_group_arn",
    "cloudformation_asg_nlb_dns_name" }

\* the value the outputs of the phase that owns the load balancer carry: the
\* anchor phase's when anchors exist, else the non-anchor phase's
NlbOwner(s) == IF s.beacon_nodes > 0 THEN 1 ELSE 2

\* C34: one compute-group stack creates the load balancer: its three fields
\* are set together, by the anchor phase when anchors exist and else by the
\* non-anchor phase; when they are set, the non-anchor stack is created with
\* the recorded target-group ARN as its parameter and the non-anchor phase
\* leaves the three fields as they are
LoadBalancerOnce ==
  /\ [](\A r \in {file, mem} : \A f \in NlbFields :
          r[f] # None => r[f] = NlbOwner(spec))
  /\ [](Set(file, NlbFields) \/ \A f \in NlbFields : file[f] = None)
  /\ [][ /\ (cmd = "apply" /\ pc = "nonbeacon"
               /\ "nonbeacon" \in run'.created /\ "nonbeacon" \notin run.created)
              => run'.parameters =
                   IF Set(mem, NlbFields)
                     THEN { <<"NlbTargetGroupArn",
                              mem.cloudformation_asg_nlb_target_group_arn>> }
                     ELSE {}
         /\ (cmd = "apply" /\ pc = "nonbeacon_poll" /\ Set(mem, NlbFields))
              => /\ \A f \in NlbFields : file'[f] = file[f]
                 /\ pc' = "nonbeacon_list_asg"
                      => \A f \in NlbFields : mem'[f] = mem[f] ]_vars

LoadBalancerOnceWitness ==
  /\ cmd = "apply" /\ pc = "nonbeacon_list_asg"
  /\ run.parameters = { <<"NlbTargetGroupArn", 1>> }
  /\ file.cloudformation_asg_non_beacon_nodes_logical_id = 2
  /\ \A f \in NlbFields : file[f] = 1 /\ mem[f] = 1

\* the stack of a phase is gone while the record of the phase is still set
DeletedRecorded(phase) ==
  /\ phase \in StackKinds
  /\ aws.stacks[phase] = "none"
  /\ PhaseSet(phase, run.loaded)

\* C35: delete writes neither the Spec file nor the content of its mirrored
\* copy (delete_all removes the copy with the bucket), so every field set
\* before delete is set after it; and an apply on that file issues no
\* creation call for a phase whose stack was deleted
DeleteKeepsSpec ==
  [][ /\ cmd = "delete" => (file' = file /\ (mirror' = mirror \/ mirror' = << >>))
      /\ cmd = "apply" =>
           \A ph \in CreatePhases :
             DeletedRecorded(ph) => (ph \notin run'.created /\ aws'.stacks[ph] = "none") ]_vars

\* delete has removed every stack, the file still records them, and an apply
\* on that file has come to its end without creating one
DeleteKeepsSpecWitness ==
  /\ result = "applied"
  /\ run.created = {}
  /\ \A k \in StackKinds \ {"beacon"} : aws.stacks[k] = "none" /\ PhaseSet(k, file)

\* the steps of the agent after its identity step
PastIdentity ==
  {"config", "bin", "plugins", "genesis", "peers", "service", "sleep", "loop"}

\* the object {id}/pki/{instance}.key.zstd.encrypted
SealedCopy(i) == \E x \in aws.pki : x[2] = i /\ x[3] = encrypt_file(to_zstd(KeyFile))

\* C36: an agent that is past its identity step with a TLS private key on
\* its disk has the sealed copy of the key in object storage, also after a
\* crash between the generation and the upload and a restart
SealedKeyAvailable ==
  \A i \in AgentIds :
    ("tls_key" \in agent[i].fs /\ agent[i].pc \in PastIdentity) => SealedCopy(i)

\* C37: once the rotation loop has ended, the key that signs each transfer
\* is the funding key at the faucet index, whose balance the rotation found
\* non-zero, and the faucet index stays within [0, number of funded keys)
FaucetKeySigns ==
  call.fn = "make_evm_transfers" =>
    LET r == call.ret
    IN /\ r.faucet_idx \in 0..(Len(call.arg.balances) - 1)
       /\ r.pc = "send" =>
            /\ call.arg.balances[r.faucet_idx + 1] # 0
            /\ \A j \in 1..Len(r.sent) : r.sent[j].signer = r.faucet_idx

\* C38: the two decoders return an error value, and do not abort, on an input
\* that is not a valid checksummed encoding, an input whose decoded form is
\* shorter than the checksum included
DecodeReturnsError ==
  call.fn \in {"decode_tampered", "decode_short", "decode_hex_bare", "decode_hex_odd"}
    => call.ret.out.kind = "Err"
====
